---- MODULE Spec2Model ----
(***************************************************************************)
(* A model of the Go port of the engine math library: Vector2 / Vector3,   *)
(* Basis, Transform2D, Quaternion, the scalar and slice helpers and the 2D *)
(* geometry queries.                                                       *)
(*                                                                         *)
(* Numbers.  A float64 is modelled by an exact fraction <<n, d>> in lowest *)
(* terms with d >= 0: d > 0 is the finite value n/d, <<1,0>> is +Inf,      *)
(* <<-1,0>> is -Inf and <<0,0>> is NaN.  Rounding is not modelled (every   *)
(* input of the model is a small integer or a short fraction, and the      *)
(* failing inputs reported are exact in float64); a negative zero is not   *)
(* modelled.  All intermediate numerators and denominators must stay below *)
(* 2^31, so sums and comparisons go through the least common denominator   *)
(* and products cancel crosswise before multiplying.                       *)
(***************************************************************************)
EXTENDS Integers, Sequences, FiniteSets, TLC

(***************************************************************************)
(* Bounds of the model.                                                    *)
(***************************************************************************)
\* Basis cells are drawn from 0..MaxCell, Transform2D cells from
\* -MaxCell..MaxCell.
MaxCell == 1

\* The closest-point queries take points of the grid (0..MaxX) x (0..MaxY).
MaxX == 4

MaxY == 2

\* The intersection queries take end points of the grid (0..MaxSeg)^2.
MaxSeg == 2

\* Half the side of the largest square handed to the offsetting functions.
MaxHalf == 5

\* The largest offset distance handed to the offsetting functions.
MaxDelta == 2

\* The scenarios of MoveToward and of the interpolations round every
\* result as float64 does, on a format scaled down to MantBits bits of
\* mantissa (float64 has 53) and exponents -MaxExp - 1 .. MaxExp.
MantBits == 3

MaxExp == 0

\* The width in bits of the integers of the Wrapi scenario, standing for
\* the 64 bits of Go's int.
IntBits == 4

\* The segment distance takes end points of the grid
\* (0..MaxDistX) x (0..MaxDistY).
MaxDistX == 2

MaxDistY == 1

\* The scalar helpers take the numbers n/2 for n in -MaxScalar..MaxScalar.
MaxScalar == 3

\* Between takes unit vectors whose components are fractions of a common
\* denominator in 1..MaxUnitDenom.
MaxUnitDenom == 5

\* Angles are h * PI/2 + r for h in -MaxQuarter..MaxQuarter and r in
\* -MaxRad..MaxRad.
MaxQuarter == 6

MaxRad == 1

\* Normalized takes vectors with components in -MaxNorm..MaxNorm.
MaxNorm == 4

\* The vector methods take vectors with components in -MaxComp..MaxComp.
MaxComp == 1

\* The slice helpers take slices of at most MaxSliceLen elements, each one
\* of 0, 1/2, .., MaxSliceCell/2.
MaxSliceLen == 2

MaxSliceCell == 2

\* The winding test takes polygons of at most MaxPoly vertices.
MaxPoly == 4

(***************************************************************************)
(* float64 arithmetic.                                                     *)
(***************************************************************************)
IAbs(n) == IF n < 0 THEN -n ELSE n

ISgn(n) == IF n > 0 THEN 1 ELSE IF n < 0 THEN -1 ELSE 0

RECURSIVE GCD(_, _)
GCD(a, b) == IF b = 0 THEN a ELSE GCD(b, a % b)

\* The float64 with value n/d (d any integer), in lowest terms.
Rat(n, d) ==
    IF d = 0 THEN <<ISgn(n), 0>>
    ELSE LET g == GCD(IAbs(n), IAbs(d))
             s == IF d < 0 THEN -1 ELSE 1
         IN  <<s * (n \div g), s * (d \div g)>>

\* The float64 of an integer literal.
F(n) == <<n, 1>>

NaN == <<0, 0>>

PosInf == <<1, 0>>

IsNaN(a) == a = NaN

LCM(a, b) == (a \div GCD(a, b)) * b

FNeg(a) == <<-a[1], a[2]>>

FAdd(a, b) ==
    IF IsNaN(a) \/ IsNaN(b) THEN NaN
    ELSE IF a[2] = 0 /\ b[2] = 0 THEN (IF a = b THEN a ELSE NaN)
    ELSE IF a[2] = 0 THEN a
    ELSE IF b[2] = 0 THEN b
    ELSE LET l == LCM(a[2], b[2])
         IN  Rat(a[1] * (l \div a[2]) + b[1] * (l \div b[2]), l)

FSub(a, b) == FAdd(a, FNeg(b))

FMul(a, b) ==
    IF a[2] = 0 \/ b[2] = 0 THEN <<ISgn(a[1]) * ISgn(b[1]), 0>>
    ELSE LET g1 == GCD(IAbs(a[1]), b[2])
             g2 == GCD(IAbs(b[1]), a[2])
         IN  <<(a[1] \div g1) * (b[1] \div g2), (a[2] \div g2) * (b[2] \div g1)>>

\* 1/a: a finite non-zero value is inverted, 1/0 is +Inf, 1/Inf is 0.
FRecip(a) ==
    IF a[1] > 0 THEN <<a[2], a[1]>>
    ELSE IF a[1] < 0 THEN <<-a[2], -a[1]>>
    ELSE IF a[2] = 0 THEN NaN ELSE PosInf

FDiv(a, b) ==
    IF IsNaN(a) \/ IsNaN(b) \/ (a[2] = 0 /\ b[2] = 0) \/ (a[1] = 0 /\ b[1] = 0)
    THEN NaN
    ELSE FMul(a, FRecip(b))

FLt(a, b) ==
    /\ ~IsNaN(a)
    /\ ~IsNaN(b)
    /\ IF a[2] = 0 /\ b[2] = 0 THEN a[1] < b[1]
       ELSE IF a[2] = 0 THEN a[1] < 0
       ELSE IF b[2] = 0 THEN b[1] > 0
       ELSE LET l == LCM(a[2], b[2])
            IN  a[1] * (l \div a[2]) < b[1] * (l \div b[2])

FEq(a, b) == ~IsNaN(a) /\ a = b

FLe(a, b) == FLt(a, b) \/ FEq(a, b)

FAbs(a) == <<IAbs(a[1]), a[2]>>

(***************************************************************************)
(* Scalar utilities (mathgd.go).                                           *)
(***************************************************************************)
CMP_EPSILON == Rat(1, 100000)

IsZeroApprox(x) == FLt(FAbs(x), CMP_EPSILON)

IsEqualApprox(x, y) == IsZeroApprox(FSub(x, y))

Sign(x) == IF FLt(F(0), x) THEN F(1) ELSE IF FLt(x, F(0)) THEN F(-1) ELSE F(0)

Clampf(val, min, max) ==
    IF FLt(val, min) THEN min ELSE IF FLt(max, val) THEN max ELSE val

(***************************************************************************)
(* Vector3 (vector3.go).                                                   *)
(***************************************************************************)
NewVector3(x, y, z) == [X |-> x, Y |-> y, Z |-> z]

Vector3Dot(v, with) ==
    FAdd(FAdd(FMul(v.X, with.X), FMul(v.Y, with.Y)), FMul(v.Z, with.Z))

(***************************************************************************)
(* Basis (basis.go).  Rows is a 3x3 tuple; the source's indices are        *)
(* 0-based, so cell [i][j] of the source is Rows[i+1][j+1] here.           *)
(***************************************************************************)
NewBasis ==
    << <<F(1), F(0), F(0)>>,
       <<F(0), F(1), F(0)>>,
       <<F(0), F(0), F(1)>> >>

BasisSet(pXX, pXY, pXZ, pYX, pYY, pYZ, pZX, pZY, pZZ) ==
    << <<pXX, pXY, pXZ>>, <<pYX, pYY, pYZ>>, <<pZX, pZY, pZZ>> >>

rowToVector3(rows, rowIdx) ==
    LET row == rows[rowIdx + 1] IN NewVector3(row[1], row[2], row[3])

BasisXform(rows, pVector) ==
    NewVector3(Vector3Dot(rowToVector3(rows, 0), pVector),
               Vector3Dot(rowToVector3(rows, 1), pVector),
               Vector3Dot(rowToVector3(rows, 2), pVector))

BasisDeterminant(rows) ==
    LET c(i, j) == rows[i + 1][j + 1]
    IN  FAdd(FSub(FMul(c(0, 0), FSub(FMul(c(1, 1), c(2, 2)), FMul(c(2, 1), c(1, 2)))),
                  FMul(c(1, 0), FSub(FMul(c(0, 1), c(2, 2)), FMul(c(2, 1), c(0, 2))))),
             FMul(c(2, 0), FSub(FMul(c(0, 1), c(1, 2)), FMul(c(1, 1), c(0, 2)))))

cofac(rows, row1, col1, row2, col2) ==
    FSub(FMul(rows[row1 + 1][col1 + 1], rows[row2 + 1][col2 + 1]),
         FMul(rows[row1 + 1][col2 + 1], rows[row2 + 1][col1 + 1]))

\* BasisInvert with the singular test written as det <= 0.
BasisInvertNonPositive(rows) ==
    LET co  == <<cofac(rows, 1, 1, 2, 2), cofac(rows, 1, 2, 2, 0), cofac(rows, 1, 0, 2, 1)>>
        det == FAdd(FAdd(FMul(rows[1][1], co[1]), FMul(rows[1][2], co[2])),
                    FMul(rows[1][3], co[3]))
    IN  IF FLe(det, F(0))
        THEN [err |-> "singular", rows |-> rows]
        ELSE LET s  == FDiv(F(1), det)
                 r0 == <<FMul(co[1], s), FMul(cofac(rows, 0, 2, 2, 1), s),
                         FMul(cofac(rows, 0, 1, 1, 2), s)>>
                 b1 == <<r0, rows[2], rows[3]>>
                 r1 == <<FMul(co[2], s), FMul(cofac(b1, 0, 0, 2, 2), s),
                         FMul(cofac(b1, 0, 2, 1, 0), s)>>
                 b2 == <<r0, r1, rows[3]>>
                 r2 == <<FMul(co[3], s), FMul(cofac(b2, 0, 1, 2, 0), s),
                         FMul(cofac(b2, 0, 0, 1, 1), s)>>
             IN  [err |-> "nil", rows |-> <<r0, r1, r2>>]

\* BasisInvert with one cofactor index of the middle row off by one.
BasisInvertIndexSlip(rows) ==
    LET co  == <<cofac(rows, 1, 1, 2, 2), cofac(rows, 1, 2, 2, 0), cofac(rows, 1, 0, 2, 1)>>
        det == FAdd(FAdd(FMul(rows[1][1], co[1]), FMul(rows[1][2], co[2])),
                    FMul(rows[1][3], co[3]))
    IN  IF FEq(det, F(0))
        THEN [err |-> "singular", rows |-> rows]
        ELSE LET s  == FDiv(F(1), det)
                 r0 == <<FMul(co[1], s), FMul(cofac(rows, 0, 2, 2, 1), s),
                         FMul(cofac(rows, 0, 1, 1, 2), s)>>
                 b1 == <<r0, rows[2], rows[3]>>
                 r1 == <<FMul(co[2], s), FMul(cofac(b1, 0, 0, 2, 1), s),
                         FMul(cofac(b1, 0, 2, 1, 0), s)>>
                 b2 == <<r0, r1, rows[3]>>
                 r2 == <<FMul(co[3], s), FMul(cofac(b2, 0, 1, 2, 0), s),
                         FMul(cofac(b2, 0, 0, 1, 1), s)>>
             IN  [err |-> "nil", rows |-> <<r0, r1, r2>>]

\* Invert works in place: each of the three row assignments reads b.Rows as
\* the assignments before it left it (cofac receives a copy of b.Rows taken
\* when the call is made).
BasisInvert(rows) ==
    LET co  == <<cofac(rows, 1, 1, 2, 2), cofac(rows, 1, 2, 2, 0), cofac(rows, 1, 0, 2, 1)>>
        det == FAdd(FAdd(FMul(rows[1][1], co[1]), FMul(rows[1][2], co[2])),
                    FMul(rows[1][3], co[3]))
    IN  IF FEq(det, F(0))
        THEN [err |-> "singular", rows |-> rows]
        ELSE LET s  == FDiv(F(1), det)
                 r0 == <<FMul(co[1], s), FMul(cofac(rows, 0, 2, 2, 1), s),
                         FMul(cofac(rows, 0, 1, 1, 2), s)>>
                 b1 == <<r0, rows[2], rows[3]>>
                 r1 == <<FMul(co[2], s), FMul(cofac(b1, 0, 0, 2, 2), s),
                         FMul(cofac(b1, 0, 2, 1, 0), s)>>
                 b2 == <<r0, r1, rows[3]>>
                 r2 == <<FMul(co[3], s), FMul(cofac(b2, 0, 1, 2, 0), s),
                         FMul(cofac(b2, 0, 0, 1, 1), s)>>
             IN  [err |-> "nil", rows |-> <<r0, r1, r2>>]

(***************************************************************************)
(* Vector2 (package vector2).                                              *)
(***************************************************************************)
NewVector2(x, y) == [X |-> x, Y |-> y]

ZeroVector2 == NewVector2(F(0), F(0))

Vector2Add(v, b) == NewVector2(FAdd(v.X, b.X), FAdd(v.Y, b.Y))

Vector2Sub(v, b) == NewVector2(FSub(v.X, b.X), FSub(v.Y, b.Y))

Vector2Mulf(v, s) == NewVector2(FMul(v.X, s), FMul(v.Y, s))

Vector2Divf(v, s) ==
    IF FEq(s, F(0)) THEN NewVector2(PosInf, PosInf)
    ELSE NewVector2(FDiv(v.X, s), FDiv(v.Y, s))

Vector2Dot(v, b) == FAdd(FMul(v.X, b.X), FMul(v.Y, b.Y))

Vector2LengthSquared(v) == FAdd(FMul(v.X, v.X), FMul(v.Y, v.Y))

(***************************************************************************)
(* Transform2D (package transform2d).  Columns is a tuple of three         *)
(* Vector2; Columns[i] of the source is t[i+1] here.                       *)
(***************************************************************************)
Transform2DFromCells(xx, xy, yx, yy, ox, oy) ==
    <<NewVector2(xx, xy), NewVector2(yx, yy), NewVector2(ox, oy)>>

\* The zero value Transform2D{}.
Transform2DZero == <<ZeroVector2, ZeroVector2, ZeroVector2>>

tdotx(t, v) == FAdd(FMul(t[1].X, v.X), FMul(t[2].X, v.Y))

tdoty(t, v) == FAdd(FMul(t[1].Y, v.X), FMul(t[2].Y, v.Y))

determinant(t) == FSub(FMul(t[1].X, t[2].Y), FMul(t[2].X, t[1].Y))

Transform2DXform(t, vec) == Vector2Add(NewVector2(tdotx(t, vec), tdoty(t, vec)), t[3])

Transform2DInverse(t) ==
    IF FEq(determinant(t), F(0)) THEN Transform2DZero
    ELSE <<NewVector2(t[1].X, t[2].X),
           NewVector2(t[1].Y, t[2].Y),
           NewVector2(FNeg(tdotx(t, t[3])), FNeg(tdoty(t, t[3])))>>

AffineInverse(t) ==
    LET det == determinant(t)
    IN  IF FEq(det, F(0)) THEN Transform2DZero
        ELSE LET idet == FDiv(F(1), det)
             IN  <<NewVector2(FMul(t[2].Y, idet), FMul(FNeg(t[1].Y), idet)),
                   NewVector2(FMul(FNeg(t[2].X), idet), FMul(t[1].X, idet)),
                   NewVector2(FMul(FNeg(tdotx(t, t[3])), idet),
                              FMul(FNeg(tdoty(t, t[3])), idet))>>

ToLocal(t, point) == Transform2DXform(AffineInverse(t), point)

ToGlobal(t, point) == Transform2DXform(t, point)

(***************************************************************************)
(* 2D geometry queries (package geometry2d).  A segment is a pair <<a, b>> *)
(* of Vector2: segment[0] of the source is segment[1] here.                *)
(***************************************************************************)
\* x < 1e-20.  Every value of the model has a denominator below 2^31, so a
\* value is below 1e-20 exactly when it is not positive.
LessThan1e20(x) == ~IsNaN(x) /\ x[1] <= 0

\* GetClosestPointToSegment with the upper clamp lost.
GetClosestPointToSegmentNoUpperClamp(point, segment) ==
    LET p  == Vector2Sub(point, segment[1])
        n  == Vector2Sub(segment[2], segment[1])
        l2 == Vector2LengthSquared(n)
    IN  IF LessThan1e20(l2) THEN segment[1]
        ELSE LET d == FDiv(Vector2Dot(n, p), l2)
             IN  IF FLe(d, F(0)) THEN segment[1]
                 ELSE Vector2Add(segment[1], Vector2Mulf(n, d))

GetClosestPointToSegment(point, segment) ==
    LET p  == Vector2Sub(point, segment[1])
        n  == Vector2Sub(segment[2], segment[1])
        l2 == Vector2LengthSquared(n)
    IN  IF LessThan1e20(l2) THEN segment[1]
        ELSE LET d == FDiv(Vector2Dot(n, p), l2)
             IN  IF FLe(d, F(0)) THEN segment[1]
                 ELSE IF FLe(F(1), d) THEN segment[2]
                 ELSE Vector2Add(segment[1], Vector2Mulf(n, d))

\* GetClosestPointToSegmentUncapped without the test for a zero length.
GetClosestPointToSegmentUncappedNoTest(point, segment) ==
    LET p  == Vector2Sub(point, segment[1])
        n  == Vector2Sub(segment[2], segment[1])
        l2 == Vector2LengthSquared(n)
        d  == FDiv(Vector2Dot(n, p), l2)
    IN  Vector2Add(segment[1], Vector2Mulf(n, d))

GetClosestPointToSegmentUncapped(point, segment) ==
    LET p  == Vector2Sub(point, segment[1])
        n  == Vector2Sub(segment[2], segment[1])
        l2 == Vector2LengthSquared(n)
    IN  IF LessThan1e20(l2) THEN segment[1]
        ELSE LET d == FDiv(Vector2Dot(n, p), l2)
             IN  Vector2Add(segment[1], Vector2Mulf(n, d))

LineIntersectsLine(from_a, dir_a, from_b, dir_b) ==
    LET denom == FSub(FMul(dir_b.Y, dir_a.X), FMul(dir_b.X, dir_a.Y))
    IN  IF IsZeroApprox(denom) THEN ZeroVector2
        ELSE LET v == Vector2Sub(from_a, from_b)
                 t == FDiv(FSub(FMul(dir_b.X, v.Y), FMul(dir_b.Y, v.X)), denom)
             IN  Vector2Add(from_a, Vector2Mulf(dir_a, t))

\* SegmentIntersectsSegment without the test ABpos > 1.
SegmentIntersectsSegmentNoUpperTest(from_a, to_a, from_b, to_b) ==
    LET B     == Vector2Sub(to_a, from_a)
        C0    == Vector2Sub(from_b, from_a)
        D0    == Vector2Sub(to_b, from_a)
        ABlen == Vector2Dot(B, B)
    IN  IF FLe(ABlen, F(0)) THEN ZeroVector2
        ELSE
        LET Bn == Vector2Divf(B, ABlen)
            C  == NewVector2(FAdd(FMul(C0.X, Bn.X), FMul(C0.Y, Bn.Y)),
                             FSub(FMul(C0.Y, Bn.X), FMul(C0.X, Bn.Y)))
            D  == NewVector2(FAdd(FMul(D0.X, Bn.X), FMul(D0.Y, Bn.Y)),
                             FSub(FMul(D0.Y, Bn.X), FMul(D0.X, Bn.Y)))
        IN  IF \/ (FLt(C.Y, FNeg(CMP_EPSILON)) /\ FLt(D.Y, FNeg(CMP_EPSILON)))
               \/ (FLt(CMP_EPSILON, C.Y) /\ FLt(CMP_EPSILON, D.Y))
            THEN ZeroVector2
            ELSE IF IsEqualApprox(C.Y, D.Y) THEN ZeroVector2
            ELSE
            LET ABpos == FAdd(D.X, FDiv(FMul(FSub(C.X, D.X), D.Y), FSub(D.Y, C.Y)))
            IN  IF FLt(ABpos, F(0)) THEN ZeroVector2
                ELSE Vector2Add(from_a, Vector2Mulf(B, ABpos))

\* SegmentIntersectsSegment with the length test written as ABlen < 0.
SegmentIntersectsSegmentNoLengthTest(from_a, to_a, from_b, to_b) ==
    LET B     == Vector2Sub(to_a, from_a)
        C0    == Vector2Sub(from_b, from_a)
        D0    == Vector2Sub(to_b, from_a)
        ABlen == Vector2Dot(B, B)
    IN  IF FLt(ABlen, F(0)) THEN ZeroVector2
        ELSE
        LET Bn == Vector2Divf(B, ABlen)
            C  == NewVector2(FAdd(FMul(C0.X, Bn.X), FMul(C0.Y, Bn.Y)),
                             FSub(FMul(C0.Y, Bn.X), FMul(C0.X, Bn.Y)))
            D  == NewVector2(FAdd(FMul(D0.X, Bn.X), FMul(D0.Y, Bn.Y)),
                             FSub(FMul(D0.Y, Bn.X), FMul(D0.X, Bn.Y)))
        IN  IF \/ (FLt(C.Y, FNeg(CMP_EPSILON)) /\ FLt(D.Y, FNeg(CMP_EPSILON)))
               \/ (FLt(CMP_EPSILON, C.Y) /\ FLt(CMP_EPSILON, D.Y))
            THEN ZeroVector2
            ELSE IF IsEqualApprox(C.Y, D.Y) THEN ZeroVector2
            ELSE
            LET ABpos == FAdd(D.X, FDiv(FMul(FSub(C.X, D.X), D.Y), FSub(D.Y, C.Y)))
            IN  IF FLt(ABpos, F(0)) \/ FLt(F(1), ABpos) THEN ZeroVector2
                ELSE Vector2Add(from_a, Vector2Mulf(B, ABpos))

SegmentIntersectsSegment(from_a, to_a, from_b, to_b) ==
    LET B     == Vector2Sub(to_a, from_a)
        C0    == Vector2Sub(from_b, from_a)
        D0    == Vector2Sub(to_b, from_a)
        ABlen == Vector2Dot(B, B)
    IN  IF FLe(ABlen, F(0)) THEN ZeroVector2
        ELSE
        LET Bn == Vector2Divf(B, ABlen)
            C  == NewVector2(FAdd(FMul(C0.X, Bn.X), FMul(C0.Y, Bn.Y)),
                             FSub(FMul(C0.Y, Bn.X), FMul(C0.X, Bn.Y)))
            D  == NewVector2(FAdd(FMul(D0.X, Bn.X), FMul(D0.Y, Bn.Y)),
                             FSub(FMul(D0.Y, Bn.X), FMul(D0.X, Bn.Y)))
        IN  IF \/ (FLt(C.Y, FNeg(CMP_EPSILON)) /\ FLt(D.Y, FNeg(CMP_EPSILON)))
               \/ (FLt(CMP_EPSILON, C.Y) /\ FLt(CMP_EPSILON, D.Y))
            THEN ZeroVector2
            ELSE IF IsEqualApprox(C.Y, D.Y) THEN ZeroVector2
            ELSE
            LET ABpos == FAdd(D.X, FDiv(FMul(FSub(C.X, D.X), D.Y), FSub(D.Y, C.Y)))
            IN  IF FLt(ABpos, F(0)) \/ FLt(F(1), ABpos) THEN ZeroVector2
                ELSE Vector2Add(from_a, Vector2Mulf(B, ABpos))

(***************************************************************************)
(* Polygon offsetting (package geometry2d).  The offset itself is computed *)
(* by the external clipper library on integer points; the package scales   *)
(* the coordinates by 10^8 on the way in and divides by 10^8 on the way    *)
(* out.  The library is a black box: Execute may return any list of        *)
(* integer paths, of which ExecuteAnswers offers three.                    *)
(***************************************************************************)
FixedScale == 100000000

JoinTypeSquare == 0

JoinTypeRound == 1

JoinTypeMiter == 2

EndTypePolygon == 0

EndTypeJoined == 1

EndTypeButt == 2

EndTypeSquare == 3

EndTypeRound == 4

\* clipper.EtClosedPolygon, the first value of the library's EndType.
EtClosedPolygon == 0

\* clipper.NewIntPointFromFloat: the integer point of two float64.  The
\* model only hands it whole numbers, so the library's rounding plays no part.
NewIntPointFromFloat(x, y) == [X |-> x[1] \div x[2], Y |-> y[1] \div y[2]]

toFixedPointPrecision(x, y) ==
    NewIntPointFromFloat(FMul(x, F(FixedScale)), FMul(y, F(FixedScale)))

toFloatingPointPrecision(value) ==
    Vector2Divf(NewVector2(F(value.X), F(value.Y)), F(FixedScale))

\* No ClipperOffset has been built.
NoClipperOffset ==
    [path |-> <<>>, jt |-> 0, et |-> 0, ArcTolerance |-> F(0),
     MiterLimit |-> F(0), delta |-> F(0), solutions |-> <<>>]

SetMin(S) == CHOOSE m \in S : \A n \in S : m <= n

SetMax(S) == CHOOSE m \in S : \A n \in S : n <= m

\* The bounding box of an integer path grown by d on each side, as a path.
GrownBox(path, d) ==
    LET xs == {path[i].X : i \in 1..Len(path)}
        ys == {path[i].Y : i \in 1..Len(path)}
    IN  << [X |-> SetMin(xs) - d, Y |-> SetMin(ys) - d],
           [X |-> SetMax(xs) + d, Y |-> SetMin(ys) - d],
           [X |-> SetMax(xs) + d, Y |-> SetMax(ys) + d],
           [X |-> SetMin(xs) - d, Y |-> SetMax(ys) + d] >>

\* What clip.Execute(delta) may return for the path added: nothing, the
\* grown outline alone, or the grown outline and a second path.
ExecuteAnswers(path, delta) ==
    LET d == delta[1] \div delta[2]
    IN  { <<>>, <<GrownBox(path, d)>>, <<GrownBox(path, d), path>> }

\* doOffset, for each answer of the library: the ClipperOffset as it was
\* used and the value returned.  make(.., len(..)) followed by append keeps
\* the len(..) zero values in front of what is appended.
doOffset(polygon, delta, jt, et) ==
    LET path == [i \in 1..Len(polygon) |->
                     toFixedPointPrecision(polygon[i].X, polygon[i].Y)]
        scaled == FMul(delta, F(FixedScale))
        points(solution) ==
            [j \in 1..Len(solution) |-> ZeroVector2]
                \o [j \in 1..Len(solution) |-> toFloatingPointPrecision(solution[j])]
        res(solutions) ==
            IF Len(solutions) = 0 THEN <<>>
            ELSE [i \in 1..Len(solutions) |-> <<>>]
                     \o [i \in 1..Len(solutions) |-> points(solutions[i])]
    IN  { [clip |-> [path |-> path, jt |-> jt, et |-> et,
                     ArcTolerance |-> F(0), MiterLimit |-> F(4),
                     delta |-> scaled, solutions |-> solutions],
           res |-> res(solutions)] : solutions \in ExecuteAnswers(path, scaled) }

OffsetPolygon(polygon, delta, joinType) ==
    doOffset(polygon, delta, joinType, EtClosedPolygon)

OffsetPolyline(polygon, delta, joinType, endType) ==
    IF endType = EndTypePolygon
    THEN { [clip |-> NoClipperOffset, res |-> <<>>] }
    ELSE doOffset(polygon, delta, joinType, endType)

(***************************************************************************)
(* Polygon winding (package geometry2d).                                   *)
(***************************************************************************)
\* IsPolygonClockwise that answers true for a zero sum as well.
IsPolygonClockwiseNonNegative(polygon) ==
    LET c == Len(polygon)
        term(i) == FMul(FSub(polygon[(i % c) + 1].X, polygon[i].X),
                        FAdd(polygon[(i % c) + 1].Y, polygon[i].Y))
        sum[i \in 0..c] == IF i = 0 THEN F(0) ELSE FAdd(sum[i - 1], term(i))
    IN  IF c < 3 THEN FALSE ELSE FLe(F(0), sum[c])

\* The loop runs i = 0..c-1 over polygon[i] and polygon[(i+1)%c]; here the
\* indices are one higher, and sum[i] is the sum after i rounds.
IsPolygonClockwise(polygon) ==
    LET c == Len(polygon)
        term(i) == FMul(FSub(polygon[(i % c) + 1].X, polygon[i].X),
                        FAdd(polygon[(i % c) + 1].Y, polygon[i].Y))
        sum[i \in 0..c] == IF i = 0 THEN F(0) ELSE FAdd(sum[i - 1], term(i))
    IN  IF c < 3 THEN FALSE ELSE FLt(F(0), sum[c])

(***************************************************************************)
(* Slice helpers (package utils) and the scalar Lerp they call.  A slice   *)
(* argument shares its backing array with the caller's slice, so each      *)
(* helper yields, besides its result res, the contents a and b of the      *)
(* caller's slices when it returns.                                        *)
(***************************************************************************)
Lerp(p_from, p_to, p_weight) == FAdd(p_from, FMul(FSub(p_to, p_from), p_weight))

MinInt(a, b) == IF a < b THEN a ELSE b

\* math.Round: the nearest integer, halves away from zero.
MathRound(x) ==
    IF x[2] = 0 THEN x
    ELSE LET q == (2 * IAbs(x[1]) + x[2]) \div (2 * x[2])
         IN  F(ISgn(x[1]) * q)

NoSlices == [a |-> <<>>, b |-> <<>>]

DotN(a, b) ==
    LET n == MinInt(Len(a), Len(b))
        res[i \in 0..n] == IF i = 0 THEN F(0) ELSE FAdd(res[i - 1], FMul(a[i], b[i]))
    IN  [res |-> res[n], a |-> a, b |-> b]

\* Round appends to a fresh slice.
UtilsRound(s) ==
    [res |-> [i \in 1..Len(s) |-> MathRound(s[i])], a |-> s, b |-> <<>>]

\* res := a copies the slice header, not the elements: res[i] = .. writes
\* the element i of the caller's a.  a and b are distinct arrays here.
UtilsLerp(a, b, weight) ==
    LET n == MinInt(Len(a), Len(b))
        res == [i \in 1..Len(a) |->
                    IF i <= n THEN Lerp(b[i], a[i], weight) ELSE a[i]]
    IN  [res |-> res, a |-> res, b |-> b]

(***************************************************************************)
(* Vector2 and Vector3 division (part_001, vector3.go).                    *)
(***************************************************************************)
NegInf == <<-1, 0>>

Vector2Div(v, b) ==
    NewVector2(IF FEq(b.X, F(0)) THEN PosInf ELSE FDiv(v.X, b.X),
               IF FEq(b.Y, F(0)) THEN PosInf ELSE FDiv(v.Y, b.Y))

Vector3Div(v, with) ==
    NewVector3(IF FEq(with.X, F(0)) THEN PosInf ELSE FDiv(v.X, with.X),
               IF FEq(with.Y, F(0)) THEN PosInf ELSE FDiv(v.Y, with.Y),
               IF FEq(with.Z, F(0)) THEN PosInf ELSE FDiv(v.Z, with.Z))

Vector3Divf(v, with) ==
    IF FEq(with, F(0)) THEN NewVector3(PosInf, PosInf, PosInf)
    ELSE NewVector3(FDiv(v.X, with), FDiv(v.Y, with), FDiv(v.Z, with))

(***************************************************************************)
(* Slide and Reflect (part_001, vector3.go).  A call either panics or      *)
(* returns a value.                                                        *)
(***************************************************************************)
Panics == [panic |-> TRUE, val |-> <<>>]

Returns(val) == [panic |-> FALSE, val |-> val]

Vector2IsNormalized(v) == IsEqualApprox(Vector2LengthSquared(v), F(1))

Vector3Sub(v, with) ==
    NewVector3(FSub(v.X, with.X), FSub(v.Y, with.Y), FSub(v.Z, with.Z))

Vector3Mulf(v, with) ==
    NewVector3(FMul(v.X, with), FMul(v.Y, with), FMul(v.Z, with))

Vector3LengthSquared(v) ==
    FAdd(FAdd(FMul(v.X, v.X), FMul(v.Y, v.Y)), FMul(v.Z, v.Z))

Vector3IsNormalized(v) == IsEqualApprox(Vector3LengthSquared(v), F(1))

Vector2Slide(v, normal) ==
    IF ~Vector2IsNormalized(normal) THEN Panics
    ELSE Returns(Vector2Sub(v, Vector2Mulf(normal, Vector2Dot(v, normal))))

Vector2Reflect(v, normal) ==
    IF ~Vector2IsNormalized(normal) THEN Panics
    ELSE Returns(Vector2Sub(Vector2Mulf(Vector2Mulf(normal, F(2)),
                                        Vector2Dot(v, normal)), v))

Vector3Slide(v, normal) ==
    IF ~Vector3IsNormalized(normal) THEN Returns(v)
    ELSE Returns(Vector3Sub(v, Vector3Mulf(normal, Vector3Dot(v, normal))))

Vector3Reflect(v, normal) ==
    IF ~Vector3IsNormalized(normal) THEN Returns(v)
    ELSE Returns(Vector3Sub(Vector3Mulf(Vector3Mulf(normal, Vector3Dot(v, normal)),
                                        F(2)), v))

(***************************************************************************)
(* Normalization (part_001, vector3.go).  math.Sqrt is exact on the        *)
(* fractions of two squares, and the model hands it nothing else.          *)
(***************************************************************************)
ISqrt(n) == CHOOSE r \in 0..n : r * r = n

MathSqrt(x) ==
    IF IsNaN(x) \/ x[1] < 0 THEN NaN
    ELSE IF x[2] = 0 THEN x
    ELSE <<ISqrt(x[1]), ISqrt(x[2])>>

Vector2Normalize(v) ==
    LET l == FAdd(FMul(v.X, v.X), FMul(v.Y, v.Y))
    IN  IF l # F(0)
        THEN NewVector2(FDiv(v.X, MathSqrt(l)), FDiv(v.Y, MathSqrt(l)))
        ELSE v

Vector2Normalized(v) == Vector2Normalize(v)

\* Normalize that divides by the squared length.
Vector3NormalizeNoSqrt(v) ==
    LET lengthsq == Vector3LengthSquared(v)
    IN  IF lengthsq = F(0) THEN NewVector3(F(0), F(0), F(0))
        ELSE NewVector3(FDiv(v.X, lengthsq), FDiv(v.Y, lengthsq), FDiv(v.Z, lengthsq))

Vector3Normalize(v) ==
    LET lengthsq == Vector3LengthSquared(v)
        length == MathSqrt(lengthsq)
    IN  IF lengthsq = F(0) THEN NewVector3(F(0), F(0), F(0))
        ELSE NewVector3(FDiv(v.X, length), FDiv(v.Y, length), FDiv(v.Z, length))

Vector3Normalized(v) == Vector3Normalize(v)

(***************************************************************************)
(* Angles (mathgd.go).  The float64 constants PI and TAU stand for the     *)
(* numbers pi and 2 pi, so a float64 that holds an angle is modelled by    *)
(* the exact number p * pi + r with fractions p and r, written Ang(p, r).  *)
(* Sums, differences and products with a plain float64 (a weight) are      *)
(* exact; the sign of p * pi + r is decided with 333/106 < pi < 355/113,   *)
(* and is left undefined for a number too near 0 to decide that way.       *)
(***************************************************************************)
Ang(p, r) == [pi |-> p, one |-> r]

PI == Ang(F(1), F(0))

TAU == Ang(F(2), F(0))

PiLow == Rat(333, 106)

PiHigh == Rat(355, 113)

AngAdd(a, b) == Ang(FAdd(a.pi, b.pi), FAdd(a.one, b.one))

AngNeg(a) == Ang(FNeg(a.pi), FNeg(a.one))

AngSub(a, b) == AngAdd(a, AngNeg(b))

\* The product of the angle a and the plain number s.
AngScale(a, s) == Ang(FMul(a.pi, s), FMul(a.one, s))

\* -1, 0 or 1 as a is negative, zero or positive.
AngSign(a) ==
    LET sp == ISgn(a.pi[1])
        sr == ISgn(a.one[1])
        q == FDiv(FAbs(a.one), FAbs(a.pi))
    IN  IF sp = 0 THEN sr
        ELSE IF sr = 0 \/ sr = sp THEN sp
        ELSE IF FLe(q, PiLow) THEN sp
        ELSE IF FLe(PiHigh, q) THEN sr
        ELSE CHOOSE s \in {} : TRUE

AngLt(a, b) == AngSign(AngSub(a, b)) < 0

AngLe(a, b) == AngSign(AngSub(a, b)) <= 0

\* math.Abs
AngAbs(a) == IF AngSign(a) < 0 THEN AngNeg(a) ELSE a

\* math.Mod(x, y) for y > 0: x less the multiple of y nearest to x between
\* 0 and x, so the result has the sign of x and is smaller than y.
MathMod(x, y) ==
    LET ax == AngAbs(x)
        k == CHOOSE k \in 0..(2 * (MaxQuarter + MaxRad)) :
                 /\ AngLe(AngScale(y, F(k)), ax)
                 /\ AngLt(ax, AngScale(y, F(k + 1)))
    IN  AngScale(AngSub(ax, AngScale(y, F(k))), F(AngSign(x)))

\* AngleDifference that stops after the first remainder.
AngleDifferenceSingleMod(p_from, p_to) == MathMod(AngSub(p_to, p_from), TAU)

\* AngleDifference that leaves out the final subtraction.
AngleDifferenceNoSubtract(p_from, p_to) ==
    LET difference == MathMod(AngSub(p_to, p_from), TAU)
    IN  MathMod(AngScale(difference, F(2)), TAU)

AngleDifference(p_from, p_to) ==
    LET difference == MathMod(AngSub(p_to, p_from), TAU)
    IN  AngSub(MathMod(AngScale(difference, F(2)), TAU), difference)

LerpAngle(p_from, p_to, p_weight) ==
    AngAdd(p_from, AngScale(AngleDifference(p_from, p_to), p_weight))

\* Clampf on numbers that hold angles.
AngClampf(val, min, max) ==
    IF AngLt(val, min) THEN min ELSE IF AngLt(max, val) THEN max ELSE val

RotateToward(p_from, p_to, p_delta) ==
    LET difference == AngleDifference(p_from, p_to)
        abs_difference == AngAbs(difference)
        r == AngAdd(p_from, AngClampf(p_delta, AngSub(abs_difference, PI), abs_difference))
    IN  IF AngSign(difference) >= 0 THEN AngScale(r, F(1)) ELSE Ang(F(0), F(-1))

(***************************************************************************)
(* Quaternion (part_002).                                                  *)
(***************************************************************************)
Vector3Cross(v, with) ==
    NewVector3(FSub(FMul(v.Y, with.Z), FMul(v.Z, with.Y)),
               FSub(FMul(v.Z, with.X), FMul(v.X, with.Z)),
               FSub(FMul(v.X, with.Y), FMul(v.Y, with.X)))

NewQuaternion(p_x, p_y, p_z, p_w) == [X |-> p_x, Y |-> p_y, Z |-> p_z, W |-> p_w]

IDENTITY == NewQuaternion(F(0), F(0), F(0), F(1))

\* Rotated that does not test the axis.
QuaternionRotatedUnchecked(axisNormal, angle) ==
    NewQuaternion(axisNormal.X, axisNormal.Y, axisNormal.Z, angle)

QuaternionRotated(axisNormal, angle) ==
    IF ~Vector3IsNormalized(axisNormal) THEN IDENTITY
    ELSE NewQuaternion(axisNormal.X, axisNormal.Y, axisNormal.Z, angle)

Between(p_v0, p_v1) ==
    LET c == Vector3Cross(p_v0, p_v1)
        d == Vector3Dot(p_v0, p_v1)
        s == MathSqrt(FMul(FAdd(F(1), d), F(2)))
        rs == FDiv(F(1), s)
    IN  IF FLt(d, FAdd(F(-1), CMP_EPSILON))
        THEN NewQuaternion(F(0), F(1), F(0), F(0))
        ELSE NewQuaternion(FMul(c.X, rs), FMul(c.Y, rs), FMul(c.Z, rs),
                           FMul(s, Rat(1, 2)))

(***************************************************************************)
(* Vector2.Rotated (part_001).  math.Sin and math.Cos are exact on the     *)
(* whole multiples of pi / 2, and the model hands them nothing else.       *)
(***************************************************************************)
\* The h for which the angle x is h * pi / 2.
QuarterTurnsOf(x) ==
    CHOOSE h \in -(2 * MaxQuarter + 2)..(2 * MaxQuarter + 2) : x = Ang(Rat(h, 2), F(0))

MathSin(x) ==
    LET q == QuarterTurnsOf(x) % 4
    IN  IF q = 1 THEN F(1) ELSE IF q = 3 THEN F(-1) ELSE F(0)

MathCos(x) ==
    LET q == QuarterTurnsOf(x) % 4
    IN  IF q = 0 THEN F(1) ELSE IF q = 2 THEN F(-1) ELSE F(0)

\* The second assignment reads v.X after the first has replaced it.
Vector2Rotated(v, x) ==
    LET sine == MathSin(x)
        cosi == MathCos(x)
        vX == FSub(FMul(v.X, cosi), FMul(v.Y, sine))
        vY == FAdd(FMul(vX, sine), FMul(v.Y, cosi))
    IN  NewVector2(vX, vY)

(***************************************************************************)
(* Snapping (mathgd.go).                                                   *)
(***************************************************************************)
Snapped(from, to) ==
    IF FEq(to, F(0)) THEN F(0) ELSE FMul(MathRound(FDiv(from, to)), to)

SnapScalar(p_offset, p_step, p_target) ==
    IF FEq(p_step, F(0))
    THEN FAdd(Snapped(FSub(p_target, p_offset), p_step), p_offset)
    ELSE p_target

(***************************************************************************)
(* Distance between two segments (package geometry2d).  The value returned *)
(* is a square root that is only handed back, so it is kept as the         *)
(* non-negative root of a fraction: RootOf(x) is math.Sqrt(x).             *)
(***************************************************************************)
RootOf(x) == [root |-> x]

\* The function without the second clamp of s after t has left [0, 1].
GetClosestPointsBetweenSegmentsNoReclamp(p1, q1, p2, q2) ==
    LET d1 == Vector2Sub(q1, p1)
        d2 == Vector2Sub(q2, p2)
        r == Vector2Sub(p1, p2)
        a == Vector2Dot(d1, d1)
        e == Vector2Dot(d2, d2)
        f == Vector2Dot(d2, r)
        c == Vector2Dot(d1, r)
        b == Vector2Dot(d1, d2)
        denom == FSub(FMul(a, e), FMul(b, b))
        s0 == IF denom # F(0)
              THEN Clampf(FDiv(FSub(FMul(b, f), FMul(c, e)), denom), F(0), F(1))
              ELSE F(0)
        t0 == FDiv(FAdd(FMul(b, s0), f), e)
        st == IF FLe(a, CMP_EPSILON)
              THEN <<F(0), Clampf(FDiv(f, e), F(0), F(1))>>
              ELSE IF FLe(e, CMP_EPSILON)
              THEN <<Clampf(FDiv(FNeg(c), a), F(0), F(1)), F(0)>>
              ELSE <<s0, Clampf(t0, F(0), F(1))>>
        c1 == Vector2Add(p1, Vector2Mulf(d1, st[1]))
        c2 == Vector2Add(p2, Vector2Mulf(d2, st[2]))
    IN  IF FLe(a, CMP_EPSILON) /\ FLe(e, CMP_EPSILON)
        THEN RootOf(Vector2Dot(Vector2Sub(p1, p2), Vector2Sub(p1, p2)))
        ELSE RootOf(Vector2Dot(Vector2Sub(c1, c2), Vector2Sub(c1, c2)))

GetClosestPointsBetweenSegments(p1, q1, p2, q2) ==
    LET d1 == Vector2Sub(q1, p1)
        d2 == Vector2Sub(q2, p2)
        r == Vector2Sub(p1, p2)
        a == Vector2Dot(d1, d1)
        e == Vector2Dot(d2, d2)
        f == Vector2Dot(d2, r)
        c == Vector2Dot(d1, r)
        b == Vector2Dot(d1, d2)
        denom == FSub(FMul(a, e), FMul(b, b))
        s0 == IF denom # F(0)
              THEN Clampf(FDiv(FSub(FMul(b, f), FMul(c, e)), denom), F(0), F(1))
              ELSE F(0)
        t0 == FDiv(FAdd(FMul(b, s0), f), e)
        \* <<s, t>>
        st == IF FLe(a, CMP_EPSILON)
              THEN <<F(0), Clampf(FDiv(f, e), F(0), F(1))>>
              ELSE IF FLe(e, CMP_EPSILON)
              THEN <<Clampf(FDiv(FNeg(c), a), F(0), F(1)), F(0)>>
              ELSE IF FLt(t0, F(0))
              THEN <<Clampf(FDiv(FNeg(c), a), F(0), F(1)), F(0)>>
              ELSE IF FLt(F(1), t0)
              THEN <<Clampf(FDiv(FSub(b, c), a), F(0), F(1)), F(1)>>
              ELSE <<s0, t0>>
        c1 == Vector2Add(p1, Vector2Mulf(d1, st[1]))
        c2 == Vector2Add(p2, Vector2Mulf(d2, st[2]))
    IN  IF FLe(a, CMP_EPSILON) /\ FLe(e, CMP_EPSILON)
        THEN RootOf(Vector2Dot(Vector2Sub(p1, p2), Vector2Sub(p1, p2)))
        ELSE RootOf(Vector2Dot(Vector2Sub(c1, c2), Vector2Sub(c1, c2)))

(***************************************************************************)
(* Basis.TransposeXform (basis.go).                                        *)
(***************************************************************************)
\* TransposeXform without the transposition: the plain product b * m.
BasisTransposeXformPlain(b, m) ==
    LET c(i, j) == FAdd(FAdd(FMul(b[i + 1][1], m[1][j + 1]),
                             FMul(b[i + 1][2], m[2][j + 1])),
                        FMul(b[i + 1][3], m[3][j + 1]))
    IN  << <<c(0, 0), c(0, 1), c(0, 2)>>,
           <<c(1, 0), c(1, 1), c(1, 2)>>,
           <<c(2, 0), c(2, 1), c(2, 2)>> >>

BasisTransposeXform(b, m) ==
    LET B(i, j) == b[i + 1][j + 1]
        M(i, j) == m[i + 1][j + 1]
    IN  << << FAdd(FAdd(FMul(B(0, 0), M(0, 0)), FMul(B(1, 0), M(1, 0))), FMul(B(2, 0), M(2, 0))),
              FAdd(FAdd(FMul(B(0, 0), M(0, 1)), FMul(B(1, 0), M(1, 1))), FMul(B(2, 0), M(2, 1))),
              FAdd(FAdd(FMul(B(0, 0), M(0, 2)), FMul(B(1, 0), M(1, 2))), FMul(B(2, 0), M(2, 2))) >>,
           << FAdd(FAdd(FMul(B(0, 1), M(0, 0)), FMul(B(1, 1), M(1, 0))), FMul(B(2, 1), M(2, 0))),
              FAdd(FAdd(FMul(B(0, 1), M(0, 1)), FMul(B(1, 1), M(1, 1))), FMul(B(2, 1), M(2, 1))),
              FAdd(FAdd(FMul(B(0, 1), M(0, 2)), FMul(B(1, 1), M(1, 2))), FMul(B(2, 1), M(2, 2))) >>,
           << FAdd(FAdd(FMul(B(0, 2), M(0, 0)), FMul(B(1, 2), M(1, 0))), FMul(B(2, 2), M(2, 0))),
              FAdd(FAdd(FMul(B(0, 2), M(0, 1)), FMul(B(1, 2), M(1, 1))), FMul(B(2, 2), M(2, 1))),
              FAdd(FAdd(FMul(B(0, 2), M(0, 2)), FMul(B(1, 2), M(1, 2))), FMul(B(2, 2), M(2, 2))) >> >>

(***************************************************************************)
(* Basis.SetAxisAngle, NewBasisFromAxisAndAngle (basis.go) and             *)
(* Vector3.Rotate, Vector3.Rotated (vector3.go).  b is the receiver: its   *)
(* cells before the call.                                                  *)
(***************************************************************************)
\* SetAxisAngle with the sine terms of opposite sign: the rotation by the
\* opposite angle.
BasisSetAxisAngleOpposite(b, axis, angle) ==
    LET axisSq == NewVector3(FMul(axis.X, axis.X), FMul(axis.Y, axis.Y), FMul(axis.Z, axis.Z))
        cosine == MathCos(angle)
        sine   == FNeg(MathSin(angle))
        t      == FSub(F(1), cosine)
    IN  << << FAdd(axisSq.X, FMul(cosine, FSub(F(1), axisSq.X))),
              FSub(FMul(FMul(axis.X, axis.Y), t), FMul(axis.Z, sine)),
              FAdd(FMul(FMul(axis.X, axis.Z), t), FMul(axis.Y, sine)) >>,
           << FAdd(FMul(FMul(axis.X, axis.Y), t), FMul(axis.Z, sine)),
              FAdd(axisSq.Y, FMul(cosine, FSub(F(1), axisSq.Y))),
              FSub(FMul(FMul(axis.Y, axis.Z), t), FMul(axis.X, sine)) >>,
           << FSub(FMul(FMul(axis.X, axis.Z), t), FMul(axis.Y, sine)),
              FAdd(FMul(FMul(axis.Y, axis.Z), t), FMul(axis.X, sine)),
              FAdd(axisSq.Z, FMul(cosine, FSub(F(1), axisSq.Z))) >> >>

BasisSetAxisAngle(b, axis, angle) ==
    LET axisSq == NewVector3(FMul(axis.X, axis.X), FMul(axis.Y, axis.Y), FMul(axis.Z, axis.Z))
        cosine == MathCos(angle)
        sine   == MathSin(angle)
        t      == FSub(F(1), cosine)
        xyzt01 == FMul(FMul(axis.X, axis.Y), t)
        zyxs01 == FMul(axis.Z, sine)
        xyzt02 == FMul(FMul(axis.X, axis.Z), t)
        zyxs02 == FMul(axis.Y, sine)
        xyzt12 == FMul(FMul(axis.Y, axis.Z), t)
        zyxs12 == FMul(axis.X, sine)
        cells  == [c \in (0..2) \X (0..2) |->
                      IF c = <<0, 0>> THEN FAdd(axisSq.X, FMul(cosine, FSub(F(1), axisSq.X)))
                      ELSE IF c = <<1, 1>> THEN FAdd(axisSq.Y, FMul(cosine, FSub(F(1), axisSq.Y)))
                      ELSE IF c = <<2, 2>> THEN FAdd(axisSq.Z, FMul(cosine, FSub(F(1), axisSq.Z)))
                      ELSE IF c = <<0, 1>> THEN FSub(xyzt01, zyxs01)
                      ELSE IF c = <<1, 0>> THEN FAdd(xyzt01, zyxs01)
                      ELSE IF c = <<0, 2>> THEN FAdd(xyzt02, zyxs02)
                      ELSE IF c = <<2, 0>> THEN FSub(xyzt02, zyxs02)
                      ELSE IF c = <<1, 2>> THEN FSub(xyzt12, zyxs12)
                      ELSE IF c = <<2, 1>> THEN FAdd(xyzt12, zyxs12)
                      ELSE b[c[1] + 1][c[2] + 1]]
    IN  << <<cells[<<0, 0>>], cells[<<0, 1>>], cells[<<0, 2>>]>>,
           <<cells[<<1, 0>>], cells[<<1, 1>>], cells[<<1, 2>>]>>,
           <<cells[<<2, 0>>], cells[<<2, 1>>], cells[<<2, 2>>]>> >>

NewBasisFromAxisAndAngle(axis, angle) == BasisSetAxisAngle(NewBasis, axis, angle)

Vector3Rotate(v, axis, angle) ==
    LET b == NewBasisFromAxisAndAngle(axis, angle) IN BasisXform(b, v)

Vector3Rotated(v, axis, angle) == Vector3Rotate(v, axis, angle)

(***************************************************************************)
(* Transform2D rotation (package transform2d): NewTransform2D,             *)
(* GetRotation, SetRotation, GetScale, SetScale.                           *)
(***************************************************************************)
\* math.Atan2 on the directions of the four half-axes and at the origin,
\* where its result is an exact multiple of a quarter turn.
MathAtan2(y, x) ==
    CHOOSE a \in {Ang(Rat(h, 2), F(0)) : h \in -1..2} :
        \/ y = F(0) /\ FLe(F(0), x) /\ a = Ang(F(0), F(0))
        \/ y = F(0) /\ FLt(x, F(0)) /\ a = PI
        \/ x = F(0) /\ FLt(F(0), y) /\ a = Ang(Rat(1, 2), F(0))
        \/ x = F(0) /\ FLt(y, F(0)) /\ a = Ang(Rat(-1, 2), F(0))

Vector2Length(v) == MathSqrt(FAdd(FMul(v.X, v.X), FMul(v.Y, v.Y)))

NewTransform2D(rot, pos) ==
    LET cr == MathCos(rot)
        sr == MathSin(rot)
    IN  <<NewVector2(cr, FNeg(sr)), NewVector2(sr, cr), pos>>

Transform2DGetRotation(t) == MathAtan2(t[1].Y, t[1].X)

Transform2DGetScale(t) ==
    LET detSign == Sign(determinant(t))
    IN  NewVector2(Vector2Length(t[1]), FMul(detSign, Vector2Length(t[2])))

Transform2DSetScale(t, p_scale) ==
    <<Vector2Mulf(Vector2Normalize(t[1]), p_scale.X),
      Vector2Mulf(Vector2Normalize(t[2]), p_scale.Y),
      t[3]>>

Transform2DSetRotation(t, p_rot) ==
    LET scale == Transform2DGetScale(t)
        cr == MathCos(p_rot)
        sr == MathSin(p_rot)
    IN  Transform2DSetScale(<<NewVector2(cr, sr), NewVector2(FNeg(sr), cr), t[3]>>, scale)

(***************************************************************************)
(* Wrapi (mathgd.go) on integers of IntBits bits: arithmetic wraps around  *)
(* and % truncates toward zero, as Go's does.                              *)
(***************************************************************************)
MathMaxInt == 2 ^ (IntBits - 1) - 1

MathMinInt == -(2 ^ (IntBits - 1))

\* The value an int holds after an addition or subtraction gave x.
WrapInt(x) == ((x - MathMinInt) % (2 ^ IntBits)) + MathMinInt

\* Go's x % y for y # 0: the sign of the result is the sign of x.
GoRem(x, y) ==
    LET m == IF y < 0 THEN -y ELSE y
    IN  IF x >= 0 THEN x % m ELSE -((-x) % m)

\* Wrapi with a single remainder.
WrapiSingleRem(value, min, max) ==
    LET r == WrapInt(max - min)
    IN  IF r = 0 THEN min
        ELSE WrapInt(min + GoRem(WrapInt(value - min), r))

Wrapi(value, min, max) ==
    LET r == WrapInt(max - min)
    IN  IF r = 0 THEN min
        ELSE WrapInt(min + GoRem(WrapInt(GoRem(WrapInt(value - min), r) + r), r))

(***************************************************************************)
(* Rounding.  Go evaluates every float64 operation exactly and rounds the  *)
(* result to the nearest float64, ties to the even mantissa.  The floats   *)
(* here are m * 2^e with |m| < 2^MantBits and MinExp <= e <= MaxExp, which *)
(* includes the subnormals; a result of 2^(MantBits + MaxExp) or more is   *)
(* an infinity.                                                            *)
(***************************************************************************)
MinExp == -MaxExp - 1

Pow2(e) == IF e >= 0 THEN F(2 ^ e) ELSE Rat(1, 2 ^ (-e))

\* The integer nearest to n/d >= 0, the even one of two equally near.
RoundHalfEven(n, d) ==
    LET fl == n \div d
        twice == 2 * (n - fl * d)
    IN  IF twice < d THEN fl
        ELSE IF twice > d THEN fl + 1
        ELSE IF fl % 2 = 0 THEN fl ELSE fl + 1

\* The float nearest to a finite x > 0.
RoundPositive(x) ==
    IF FLe(Pow2(MantBits + MaxExp), x) THEN PosInf
    ELSE LET e == IF FLt(x, Pow2(MantBits - 1 + MinExp)) THEN MinExp
                  ELSE CHOOSE k \in MinExp..MaxExp :
                           FLe(Pow2(MantBits - 1 + k), x) /\ FLt(x, Pow2(MantBits + k))
             q == FDiv(x, Pow2(e))
             m == RoundHalfEven(q[1], q[2])
         IN  IF e = MaxExp /\ m = 2 ^ MantBits THEN PosInf
             ELSE FMul(F(m), Pow2(e))

\* The float64 that holds the exact result x of an operation.
RoundFloat(x) ==
    IF x[2] = 0 \/ x[1] = 0 THEN x
    ELSE IF x[1] > 0 THEN RoundPositive(x)
    ELSE FNeg(RoundPositive(FNeg(x)))

RAdd(a, b) == RoundFloat(FAdd(a, b))

RSub(a, b) == RoundFloat(FSub(a, b))

RMul(a, b) == RoundFloat(FMul(a, b))

(***************************************************************************)
(* MoveToward (mathgd.go), every operation rounded.                        *)
(***************************************************************************)
\* MoveToward that stays where it is once the target is within delta.
MoveTowardStopsShort(p_from, p_to, p_delta) ==
    IF FLe(FAbs(RSub(p_to, p_from)), p_delta) THEN p_from
    ELSE RAdd(p_from, RMul(Sign(RSub(p_to, p_from)), p_delta))

MoveToward(p_from, p_to, p_delta) ==
    IF FLe(FAbs(RSub(p_to, p_from)), p_delta) THEN p_to
    ELSE RAdd(p_from, RMul(Sign(RSub(p_to, p_from)), p_delta))

(***************************************************************************)
(* Lerp, CubicInterpolate and BezierInterpolate (mathgd.go), every         *)
(* operation rounded, in Go's order of evaluation.                         *)
(***************************************************************************)
\* Lerp with the weight applied to p_to instead of to the difference.
LerpRoundedNoDifference(p_from, p_to, p_weight) ==
    RAdd(p_from, RMul(p_to, p_weight))

LerpRounded(p_from, p_to, p_weight) ==
    RAdd(p_from, RMul(RSub(p_to, p_from), p_weight))

CubicInterpolate(p_from, p_to, p_pre, p_post, p_weight) ==
    LET w2 == RMul(p_weight, p_weight)
        w3 == RMul(w2, p_weight)
        t1 == RMul(p_from, F(2))
        t2 == RMul(RAdd(FNeg(p_pre), p_to), p_weight)
        t3 == RMul(RSub(RAdd(RSub(RMul(F(2), p_pre), RMul(F(5), p_from)),
                             RMul(F(4), p_to)),
                        p_post),
                   w2)
        t4 == RMul(RAdd(RSub(RAdd(FNeg(p_pre), RMul(F(3), p_from)),
                             RMul(F(3), p_to)),
                        p_post),
                   w3)
    IN  RMul(Rat(1, 2), RAdd(RAdd(RAdd(t1, t2), t3), t4))

BezierInterpolate(p_start, p_control_1, p_control_2, p_end, p_t) ==
    LET omt  == RSub(F(1), p_t)
        omt2 == RMul(omt, omt)
        omt3 == RMul(omt2, omt)
        t2   == RMul(p_t, p_t)
        t3   == RMul(t2, p_t)
    IN  RAdd(RAdd(RAdd(RMul(p_start, omt3),
                       RMul(RMul(RMul(p_control_1, omt2), p_t), F(3))),
                  RMul(RMul(RMul(p_control_2, omt), t2), F(3))),
             RMul(p_end, t3))

(***************************************************************************)
(* The elementwise helpers of package utils (vector3.go): Abs, Sign, Floor *)
(* and Ceil.  Each appends math.Round(s[i]) to a fresh slice, as Round     *)
(* does.                                                                   *)
(***************************************************************************)
UtilsAbs(s) ==
    [res |-> [i \in 1..Len(s) |-> MathRound(s[i])], a |-> s, b |-> <<>>]

UtilsSign(s) ==
    [res |-> [i \in 1..Len(s) |-> MathRound(s[i])], a |-> s, b |-> <<>>]

UtilsFloor(s) ==
    [res |-> [i \in 1..Len(s) |-> MathRound(s[i])], a |-> s, b |-> <<>>]

UtilsCeil(s) ==
    [res |-> [i \in 1..Len(s) |-> MathRound(s[i])], a |-> s, b |-> <<>>]

(***************************************************************************)
(* State.  Every scenario keeps in pc the sequence of operations applied   *)
(* so far; the variables of the other scenarios stay at their initial      *)
(* values.                                                                 *)
(***************************************************************************)
VARIABLES
    pc,      \* the operations applied so far, oldest first
    basis,   \* Basis.Rows of the Basis under test
    borig,   \* Basis.Rows as they were before the last Invert
    berr,    \* what the last Invert returned: "none" (not called), "nil", "singular"
    bdet,    \* what the last Determinant returned
    bx,      \* the vector handed to the first Xform
    by,      \* what the last Xform returned
    xf,      \* Transform2D.Columns of the Transform2D under test
    xp,      \* the point handed to the first ToGlobal / Xform
    xq,      \* the point the last ToGlobal / ToLocal / Xform returned
    args,    \* the arguments of the last call of a function
    ret,     \* what that call returned
    clip,    \* the ClipperOffset object of the last doOffset, and what its Execute returned
    mem      \* the caller's slices a and b as they are after the last call

basisVars == <<basis, borig, berr, bdet, bx, by>>

xfVars == <<xf, xp, xq>>

callVars == <<args, ret, clip, mem>>

vars == <<pc, basisVars, xfVars, callVars>>

ZeroVector3 == NewVector3(F(0), F(0), F(0))

BasisIdle ==
    /\ basis = NewBasis
    /\ borig = NewBasis
    /\ berr = "none"
    /\ bdet = F(0)
    /\ bx = ZeroVector3
    /\ by = ZeroVector3

XfIdle ==
    /\ xf = Transform2DZero
    /\ xp = ZeroVector2
    /\ xq = ZeroVector2

CallIdle ==
    /\ args = <<>>
    /\ ret = <<>>
    /\ clip = NoClipperOffset
    /\ mem = NoSlices

(***************************************************************************)
(* Basis scenario: NewBasis, then optionally Set, then Determinant, or     *)
(* Invert, or Xform / Invert / Xform.                                      *)
(***************************************************************************)
BasisCells == {F(n) : n \in 0..MaxCell}

\* The vectors handed to Xform: the three axes and their sum.
ProbeVectors ==
    {NewVector3(F(1), F(0), F(0)), NewVector3(F(0), F(1), F(0)),
     NewVector3(F(0), F(0), F(1)), NewVector3(F(1), F(1), F(1))}

InitBasis ==
    /\ pc = <<"NewBasis">>
    /\ BasisIdle
    /\ XfIdle
    /\ CallIdle

DoBasisSet ==
    /\ pc = <<"NewBasis">>
    /\ \E xx, xy, xz, yx, yy, yz, zx, zy, zz \in BasisCells :
           basis' = BasisSet(xx, xy, xz, yx, yy, yz, zx, zy, zz)
    /\ pc' = Append(pc, "Set")
    /\ UNCHANGED <<borig, berr, bdet, bx, by, xfVars, callVars>>

DoBasisDeterminant ==
    /\ pc \in {<<"NewBasis">>, <<"NewBasis", "Set">>}
    /\ bdet' = BasisDeterminant(basis)
    /\ pc' = Append(pc, "Determinant")
    /\ UNCHANGED <<basis, borig, berr, bx, by, xfVars, callVars>>

DoBasisXform ==
    /\ pc \in {<<"NewBasis">>, <<"NewBasis", "Set">>}
    /\ \E x \in ProbeVectors :
           /\ bx' = x
           /\ by' = BasisXform(basis, x)
    /\ pc' = Append(pc, "Xform")
    /\ UNCHANGED <<basis, borig, berr, bdet, xfVars, callVars>>

DoBasisInvert ==
    /\ Len(pc) <= 3
    /\ pc[Len(pc)] \in {"NewBasis", "Set", "Xform"}
    /\ LET r == BasisInvert(basis)
       IN  /\ basis' = r.rows
           /\ berr' = r.err
    /\ borig' = basis
    /\ pc' = Append(pc, "Invert")
    /\ UNCHANGED <<bdet, bx, by, xfVars, callVars>>

\* The caller checks the error of Invert before it trusts the matrix.
DoBasisXformBack ==
    /\ Len(pc) >= 3
    /\ pc[Len(pc)] = "Invert"
    /\ pc[Len(pc) - 1] = "Xform"
    /\ berr = "nil"
    /\ by' = BasisXform(basis, by)
    /\ pc' = Append(pc, "XformBack")
    /\ UNCHANGED <<basis, borig, berr, bdet, bx, xfVars, callVars>>

NextBasis == DoBasisSet \/ DoBasisDeterminant \/ DoBasisXform \/ DoBasisInvert \/ DoBasisXformBack

SpecBasis == InitBasis /\ [][NextBasis]_vars

(***************************************************************************)
(* Transform2D scenario: Transform2DFromCells, then ToGlobal / ToLocal or  *)
(* Xform / Inverse().Xform.                                                *)
(***************************************************************************)
TransformCells == {F(n) : n \in -MaxCell..MaxCell}

PointCells == {F(n) : n \in 0..MaxCell}

InitTransform2D ==
    /\ pc = <<"Transform2DFromCells">>
    /\ \E xx, xy, yx, yy \in TransformCells : \E ox, oy \in PointCells :
           xf = Transform2DFromCells(xx, xy, yx, yy, ox, oy)
    /\ xp = ZeroVector2
    /\ xq = ZeroVector2
    /\ BasisIdle
    /\ CallIdle

DoToGlobal ==
    /\ pc = <<"Transform2DFromCells">>
    /\ \E x, y \in PointCells :
           /\ xp' = NewVector2(x, y)
           /\ xq' = ToGlobal(xf, NewVector2(x, y))
    /\ pc' = Append(pc, "ToGlobal")
    /\ UNCHANGED <<xf, basisVars, callVars>>

DoToLocal ==
    /\ pc = <<"Transform2DFromCells", "ToGlobal">>
    /\ xq' = ToLocal(xf, xq)
    /\ pc' = Append(pc, "ToLocal")
    /\ UNCHANGED <<xf, xp, basisVars, callVars>>

DoTransformXform ==
    /\ pc = <<"Transform2DFromCells">>
    /\ \E x, y \in PointCells :
           /\ xp' = NewVector2(x, y)
           /\ xq' = Transform2DXform(xf, NewVector2(x, y))
    /\ pc' = Append(pc, "Xform")
    /\ UNCHANGED <<xf, basisVars, callVars>>

DoInverseXform ==
    /\ pc = <<"Transform2DFromCells", "Xform">>
    /\ xq' = Transform2DXform(Transform2DInverse(xf), xq)
    /\ pc' = Append(pc, "Inverse.Xform")
    /\ UNCHANGED <<xf, xp, basisVars, callVars>>

NextTransform2D == DoToGlobal \/ DoToLocal \/ DoTransformXform \/ DoInverseXform

SpecTransform2D == InitTransform2D /\ [][NextTransform2D]_vars

(***************************************************************************)
(* Geometry scenario: one call of one query.                               *)
(***************************************************************************)
\* The points of the closest-point queries.
ClosestGrid == {NewVector2(F(x), F(y)) : x \in 0..MaxX, y \in 0..MaxY}

\* The end points of the intersection queries.
SegGrid == {NewVector2(F(x), F(y)) : x \in 0..MaxSeg, y \in 0..MaxSeg}

\* Segments B that stay within, or differ by less than, the tolerance
\* CMP_EPSILON of the segment A = (0,0)-(2,0): B ends 1/100000 above A,
\* and B crosses A but is only 1/100000 long.
NearInputs ==
    { <<NewVector2(F(0), F(0)), NewVector2(F(2), F(0)),
        NewVector2(F(1), Rat(1, 100000)), NewVector2(F(1), F(1))>>,
      <<NewVector2(F(0), F(0)), NewVector2(F(2), F(0)),
        NewVector2(F(1), Rat(-1, 200000)), NewVector2(F(1), Rat(1, 200000))>> }

SegInputs == (SegGrid \X SegGrid \X SegGrid \X SegGrid) \cup NearInputs

InitGeometry ==
    /\ pc = <<>>
    /\ CallIdle
    /\ BasisIdle
    /\ XfIdle

DoGetClosestPointToSegment ==
    /\ pc = <<>>
    /\ \E point, a, b \in ClosestGrid :
           /\ args' = <<point, a, b>>
           /\ ret' = GetClosestPointToSegment(point, <<a, b>>)
    /\ pc' = <<"GetClosestPointToSegment">>
    /\ UNCHANGED <<basisVars, xfVars, clip, mem>>

DoGetClosestPointToSegmentUncapped ==
    /\ pc = <<>>
    /\ \E point, a, b \in ClosestGrid :
           /\ args' = <<point, a, b>>
           /\ ret' = GetClosestPointToSegmentUncapped(point, <<a, b>>)
    /\ pc' = <<"GetClosestPointToSegmentUncapped">>
    /\ UNCHANGED <<basisVars, xfVars, clip, mem>>

DoLineIntersectsLine ==
    /\ pc = <<>>
    /\ \E from_a, to_a, from_b, to_b \in SegGrid :
           LET dir_a == Vector2Sub(to_a, from_a)
               dir_b == Vector2Sub(to_b, from_b)
           IN  /\ args' = <<from_a, dir_a, from_b, dir_b>>
               /\ ret' = LineIntersectsLine(from_a, dir_a, from_b, dir_b)
    /\ pc' = <<"LineIntersectsLine">>
    /\ UNCHANGED <<basisVars, xfVars, clip, mem>>

DoSegmentIntersectsSegment ==
    /\ pc = <<>>
    /\ \E in \in SegInputs :
           /\ args' = in
           /\ ret' = SegmentIntersectsSegment(in[1], in[2], in[3], in[4])
    /\ pc' = <<"SegmentIntersectsSegment">>
    /\ UNCHANGED <<basisVars, xfVars, clip, mem>>

NextGeometry ==
    \/ DoGetClosestPointToSegment
    \/ DoGetClosestPointToSegmentUncapped
    \/ DoLineIntersectsLine
    \/ DoSegmentIntersectsSegment

SpecGeometry == InitGeometry /\ [][NextGeometry]_vars

(***************************************************************************)
(* Offset scenario: one call of OffsetPolygon or OffsetPolyline on a       *)
(* square centred at the origin.                                           *)
(***************************************************************************)
Square(h) ==
    << NewVector2(F(-h), F(-h)), NewVector2(F(h), F(-h)),
       NewVector2(F(h), F(h)), NewVector2(F(-h), F(h)) >>

JoinTypes == {JoinTypeSquare, JoinTypeRound, JoinTypeMiter}

EndTypes == {EndTypePolygon, EndTypeJoined, EndTypeButt, EndTypeSquare, EndTypeRound}

InitOffset ==
    /\ pc = <<>>
    /\ CallIdle
    /\ BasisIdle
    /\ XfIdle

DoOffsetPolygon ==
    /\ pc = <<>>
    /\ \E h \in 1..MaxHalf, d \in 1..MaxDelta, joinType \in JoinTypes :
           \E out \in OffsetPolygon(Square(h), F(d), joinType) :
               /\ args' = <<Square(h), F(d), joinType>>
               /\ clip' = out.clip
               /\ ret' = out.res
    /\ pc' = <<"OffsetPolygon">>
    /\ UNCHANGED <<basisVars, xfVars, mem>>

DoOffsetPolyline ==
    /\ pc = <<>>
    /\ \E h \in 1..MaxHalf, d \in 1..MaxDelta, joinType \in JoinTypes, endType \in EndTypes :
           \E out \in OffsetPolyline(Square(h), F(d), joinType, endType) :
               /\ args' = <<Square(h), F(d), joinType, endType>>
               /\ clip' = out.clip
               /\ ret' = out.res
    /\ pc' = <<"OffsetPolyline">>
    /\ UNCHANGED <<basisVars, xfVars, mem>>

NextOffset == DoOffsetPolygon \/ DoOffsetPolyline

SpecOffset == InitOffset /\ [][NextOffset]_vars

(***************************************************************************)
(* Polygon scenario: one call of IsPolygonClockwise on a polygon, then one *)
(* on the same vertices in reverse order.                                  *)
(***************************************************************************)
PolyGrid == {NewVector2(F(x), F(y)) : x, y \in 0..1}

Polygons == UNION {[1..n -> PolyGrid] : n \in 0..MaxPoly}

ReversePolygon(polygon) ==
    [i \in 1..Len(polygon) |-> polygon[Len(polygon) + 1 - i]]

InitPolygon ==
    /\ pc = <<>>
    /\ CallIdle
    /\ BasisIdle
    /\ XfIdle

DoIsPolygonClockwise ==
    /\ pc = <<>>
    /\ \E polygon \in Polygons :
           /\ args' = <<polygon>>
           /\ ret' = <<IsPolygonClockwise(polygon)>>
    /\ pc' = <<"IsPolygonClockwise">>
    /\ UNCHANGED <<basisVars, xfVars, clip, mem>>

DoIsPolygonClockwiseReversed ==
    /\ pc = <<"IsPolygonClockwise">>
    /\ ret' = Append(ret, IsPolygonClockwise(ReversePolygon(args[1])))
    /\ pc' = Append(pc, "IsPolygonClockwise")
    /\ UNCHANGED <<args, basisVars, xfVars, clip, mem>>

NextPolygon == DoIsPolygonClockwise \/ DoIsPolygonClockwiseReversed

SpecPolygon == InitPolygon /\ [][NextPolygon]_vars

(***************************************************************************)
(* Slice scenario: the caller holds two slices a and b of distinct arrays  *)
(* and makes one call of a helper of package utils.                        *)
(***************************************************************************)
SliceCells == {Rat(n, 2) : n \in 0..MaxSliceCell}

Slices == UNION {[1..n -> SliceCells] : n \in 0..MaxSliceLen}

Weights == {F(0), Rat(1, 2), F(1)}

InitSlices ==
    /\ pc = <<>>
    /\ CallIdle
    /\ BasisIdle
    /\ XfIdle

DoDotN ==
    /\ pc = <<>>
    /\ \E a, b \in Slices :
           LET out == DotN(a, b)
           IN  /\ args' = <<a, b>>
               /\ ret' = out.res
               /\ mem' = [a |-> out.a, b |-> out.b]
    /\ pc' = <<"DotN">>
    /\ UNCHANGED <<basisVars, xfVars, clip>>

DoUtilsRound ==
    /\ pc = <<>>
    /\ \E s \in Slices :
           LET out == UtilsRound(s)
           IN  /\ args' = <<s, <<>>>>
               /\ ret' = out.res
               /\ mem' = [a |-> out.a, b |-> out.b]
    /\ pc' = <<"Round">>
    /\ UNCHANGED <<basisVars, xfVars, clip>>

DoUtilsLerp ==
    /\ pc = <<>>
    /\ \E a, b \in Slices, weight \in Weights :
           LET out == UtilsLerp(a, b, weight)
           IN  /\ args' = <<a, b, weight>>
               /\ ret' = out.res
               /\ mem' = [a |-> out.a, b |-> out.b]
    /\ pc' = <<"Lerp">>
    /\ UNCHANGED <<basisVars, xfVars, clip>>

NextSlices == DoDotN \/ DoUtilsRound \/ DoUtilsLerp

SpecSlices == InitSlices /\ [][NextSlices]_vars

(***************************************************************************)
(* Division scenario: one call of Div or Divf on a Vector2 or a Vector3.   *)
(***************************************************************************)
Comps == {F(n) : n \in -MaxComp..MaxComp}

Vectors2 == {NewVector2(x, y) : x, y \in Comps}

Vectors3 == {NewVector3(x, y, z) : x, y, z \in Comps}

InitDivide ==
    /\ pc = <<>>
    /\ CallIdle
    /\ BasisIdle
    /\ XfIdle

DoVector2Div ==
    /\ pc = <<>>
    /\ \E v, b \in Vectors2 :
           /\ args' = <<v, b>>
           /\ ret' = Vector2Div(v, b)
    /\ pc' = <<"Vector2.Div">>
    /\ UNCHANGED <<basisVars, xfVars, clip, mem>>

DoVector2Divf ==
    /\ pc = <<>>
    /\ \E v \in Vectors2, s \in Comps :
           /\ args' = <<v, s>>
           /\ ret' = Vector2Divf(v, s)
    /\ pc' = <<"Vector2.Divf">>
    /\ UNCHANGED <<basisVars, xfVars, clip, mem>>

DoVector3Div ==
    /\ pc = <<>>
    /\ \E v, with \in Vectors3 :
           /\ args' = <<v, with>>
           /\ ret' = Vector3Div(v, with)
    /\ pc' = <<"Vector3.Div">>
    /\ UNCHANGED <<basisVars, xfVars, clip, mem>>

DoVector3Divf ==
    /\ pc = <<>>
    /\ \E v \in Vectors3, with \in Comps :
           /\ args' = <<v, with>>
           /\ ret' = Vector3Divf(v, with)
    /\ pc' = <<"Vector3.Divf">>
    /\ UNCHANGED <<basisVars, xfVars, clip, mem>>

NextDivide == DoVector2Div \/ DoVector2Divf \/ DoVector3Div \/ DoVector3Divf

SpecDivide == InitDivide /\ [][NextDivide]_vars

(***************************************************************************)
(* Reflection scenario: one call of Slide or Reflect on a Vector2 or a     *)
(* Vector3.                                                                *)
(***************************************************************************)
InitReflect ==
    /\ pc = <<>>
    /\ CallIdle
    /\ BasisIdle
    /\ XfIdle

DoVector2Slide ==
    /\ pc = <<>>
    /\ \E v, normal \in Vectors2 :
           /\ args' = <<v, normal>>
           /\ ret' = Vector2Slide(v, normal)
    /\ pc' = <<"Vector2.Slide">>
    /\ UNCHANGED <<basisVars, xfVars, clip, mem>>

DoVector2Reflect ==
    /\ pc = <<>>
    /\ \E v, normal \in Vectors2 :
           /\ args' = <<v, normal>>
           /\ ret' = Vector2Reflect(v, normal)
    /\ pc' = <<"Vector2.Reflect">>
    /\ UNCHANGED <<basisVars, xfVars, clip, mem>>

DoVector3Slide ==
    /\ pc = <<>>
    /\ \E v, normal \in Vectors3 :
           /\ args' = <<v, normal>>
           /\ ret' = Vector3Slide(v, normal)
    /\ pc' = <<"Vector3.Slide">>
    /\ UNCHANGED <<basisVars, xfVars, clip, mem>>

DoVector3Reflect ==
    /\ pc = <<>>
    /\ \E v, normal \in Vectors3 :
           /\ args' = <<v, normal>>
           /\ ret' = Vector3Reflect(v, normal)
    /\ pc' = <<"Vector3.Reflect">>
    /\ UNCHANGED <<basisVars, xfVars, clip, mem>>

NextReflect ==
    DoVector2Slide \/ DoVector2Reflect \/ DoVector3Slide \/ DoVector3Reflect

SpecReflect == InitReflect /\ [][NextReflect]_vars

(***************************************************************************)
(* Normalization scenario: one call of Normalized on a Vector2 or a        *)
(* Vector3 of integer components and rational length, then IsNormalized    *)
(* on the result.                                                          *)
(***************************************************************************)
IsSquare(n) == \E r \in 0..n : r * r = n

NormComps == -MaxNorm..MaxNorm

RationalVectors2 ==
    {NewVector2(F(x), F(y)) : <<x, y>> \in
        {c \in NormComps \X NormComps : IsSquare(c[1] * c[1] + c[2] * c[2])}}

RationalVectors3 ==
    {NewVector3(F(c[1]), F(c[2]), F(c[3])) : c \in
        {c \in NormComps \X NormComps \X NormComps :
            IsSquare(c[1] * c[1] + c[2] * c[2] + c[3] * c[3])}}

InitNormalize ==
    /\ pc = <<>>
    /\ CallIdle
    /\ BasisIdle
    /\ XfIdle

DoVector2Normalized ==
    /\ pc = <<>>
    /\ \E v \in RationalVectors2 :
           /\ args' = <<v>>
           /\ ret' = <<Vector2Normalized(v)>>
    /\ pc' = <<"Vector2.Normalized">>
    /\ UNCHANGED <<basisVars, xfVars, clip, mem>>

DoVector2IsNormalized ==
    /\ pc = <<"Vector2.Normalized">>
    /\ ret' = Append(ret, Vector2IsNormalized(ret[1]))
    /\ pc' = Append(pc, "Vector2.IsNormalized")
    /\ UNCHANGED <<args, basisVars, xfVars, clip, mem>>

DoVector3Normalized ==
    /\ pc = <<>>
    /\ \E v \in RationalVectors3 :
           /\ args' = <<v>>
           /\ ret' = <<Vector3Normalized(v)>>
    /\ pc' = <<"Vector3.Normalized">>
    /\ UNCHANGED <<basisVars, xfVars, clip, mem>>

DoVector3IsNormalized ==
    /\ pc = <<"Vector3.Normalized">>
    /\ ret' = Append(ret, Vector3IsNormalized(ret[1]))
    /\ pc' = Append(pc, "Vector3.IsNormalized")
    /\ UNCHANGED <<args, basisVars, xfVars, clip, mem>>

NextNormalize ==
    \/ DoVector2Normalized
    \/ DoVector2IsNormalized
    \/ DoVector3Normalized
    \/ DoVector3IsNormalized

SpecNormalize == InitNormalize /\ [][NextNormalize]_vars

(***************************************************************************)
(* Angle scenario: one call of LerpAngle.                                  *)
(***************************************************************************)
Angles ==
    {Ang(Rat(h, 2), F(r)) : h \in -MaxQuarter..MaxQuarter, r \in -MaxRad..MaxRad}

InitAngle ==
    /\ pc = <<>>
    /\ CallIdle
    /\ BasisIdle
    /\ XfIdle

DoLerpAngle ==
    /\ pc = <<>>
    /\ \E p_from, p_to \in Angles, p_weight \in Weights :
           /\ args' = <<p_from, p_to, p_weight>>
           /\ ret' = LerpAngle(p_from, p_to, p_weight)
    /\ pc' = <<"LerpAngle">>
    /\ UNCHANGED <<basisVars, xfVars, clip, mem>>

\* The amounts handed to RotateToward: -1/2, 0, 1/2 and 2 radians.
Deltas == {Ang(F(0), Rat(-1, 2)), Ang(F(0), F(0)), Ang(F(0), Rat(1, 2)), Ang(F(0), F(2))}

DoRotateToward ==
    /\ pc = <<>>
    /\ \E p_from, p_to \in Angles, p_delta \in Deltas :
           /\ args' = <<p_from, p_to, p_delta>>
           /\ ret' = RotateToward(p_from, p_to, p_delta)
    /\ pc' = <<"RotateToward">>
    /\ UNCHANGED <<basisVars, xfVars, clip, mem>>

DoAngleDifference ==
    /\ pc = <<>>
    /\ \E p_from, p_to \in Angles :
           /\ args' = <<p_from, p_to>>
           /\ ret' = AngleDifference(p_from, p_to)
    /\ pc' = <<"AngleDifference">>
    /\ UNCHANGED <<basisVars, xfVars, clip, mem>>

NextAngle == DoLerpAngle \/ DoRotateToward \/ DoAngleDifference

SpecAngle == InitAngle /\ [][NextAngle]_vars

(***************************************************************************)
(* Quaternion scenario: one call of Rotated or of Between.  Between gets   *)
(* unit vectors of rational components, in pairs for which the square root *)
(* it takes is rational.                                                   *)
(***************************************************************************)
QuaternionAngles == Comps \cup Weights

UnitVectors ==
    UNION { {NewVector3(Rat(c[1], n), Rat(c[2], n), Rat(c[3], n)) : c \in
                {c \in (-n..n) \X (-n..n) \X (-n..n) :
                    c[1] * c[1] + c[2] * c[2] + c[3] * c[3] = n * n}}
            : n \in 1..MaxUnitDenom }

HasRationalRoot(x) == x[2] > 0 /\ x[1] >= 0 /\ IsSquare(x[1]) /\ IsSquare(x[2])

BetweenInputs ==
    {in \in UnitVectors \X UnitVectors :
        LET d == Vector3Dot(in[1], in[2])
        IN  \/ FLt(d, FAdd(F(-1), CMP_EPSILON))
            \/ HasRationalRoot(FMul(FAdd(F(1), d), F(2)))}

InitQuaternion ==
    /\ pc = <<>>
    /\ CallIdle
    /\ BasisIdle
    /\ XfIdle

DoQuaternionRotated ==
    /\ pc = <<>>
    /\ \E axisNormal \in Vectors3, angle \in QuaternionAngles :
           /\ args' = <<axisNormal, angle>>
           /\ ret' = QuaternionRotated(axisNormal, angle)
    /\ pc' = <<"Rotated">>
    /\ UNCHANGED <<basisVars, xfVars, clip, mem>>

DoBetween ==
    /\ pc = <<>>
    /\ \E in \in BetweenInputs :
           /\ args' = in
           /\ ret' = Between(in[1], in[2])
    /\ pc' = <<"Between">>
    /\ UNCHANGED <<basisVars, xfVars, clip, mem>>

NextQuaternion == DoQuaternionRotated \/ DoBetween

SpecQuaternion == InitQuaternion /\ [][NextQuaternion]_vars

(***************************************************************************)
(* Rotation scenario: one call of Vector2.Rotated by a whole number of     *)
(* quarter turns.                                                          *)
(***************************************************************************)
QuarterAngles == {Ang(Rat(h, 2), F(0)) : h \in -MaxQuarter..MaxQuarter}

InitRotate ==
    /\ pc = <<>>
    /\ CallIdle
    /\ BasisIdle
    /\ XfIdle

DoVector2Rotated ==
    /\ pc = <<>>
    /\ \E v \in Vectors2, x \in QuarterAngles :
           /\ args' = <<v, x>>
           /\ ret' = Vector2Rotated(v, x)
    /\ pc' = <<"Vector2.Rotated">>
    /\ UNCHANGED <<basisVars, xfVars, clip, mem>>

NextRotate == DoVector2Rotated

SpecRotate == InitRotate /\ [][NextRotate]_vars

(***************************************************************************)
(* Snap scenario: one call of SnapScalar.                                  *)
(***************************************************************************)
Scalars == {Rat(n, 2) : n \in -MaxScalar..MaxScalar}

InitSnap ==
    /\ pc = <<>>
    /\ CallIdle
    /\ BasisIdle
    /\ XfIdle

DoSnapScalar ==
    /\ pc = <<>>
    /\ \E p_offset, p_step, p_target \in Scalars :
           /\ args' = <<p_offset, p_step, p_target>>
           /\ ret' = SnapScalar(p_offset, p_step, p_target)
    /\ pc' = <<"SnapScalar">>
    /\ UNCHANGED <<basisVars, xfVars, clip, mem>>

NextSnap == DoSnapScalar

SpecSnap == InitSnap /\ [][NextSnap]_vars

(***************************************************************************)
(* Segment distance scenario: one call of GetClosestPointsBetweenSegments, *)
(* then one with the two segments swapped.                                 *)
(***************************************************************************)
DistGrid == {NewVector2(F(x), F(y)) : x \in 0..MaxDistX, y \in 0..MaxDistY}

\* A first segment 1/1000 long, of squared length below CMP_EPSILON, with a
\* second segment that is the point (1,0) or runs from (1,0) to (1,1).
ShortSegmentInputs ==
    { <<NewVector2(F(0), F(0)), NewVector2(Rat(1, 1000), F(0)),
        NewVector2(F(1), F(0)), NewVector2(F(1), F(0))>>,
      <<NewVector2(F(0), F(0)), NewVector2(Rat(1, 1000), F(0)),
        NewVector2(F(1), F(0)), NewVector2(F(1), F(1))>> }

DistInputs == (DistGrid \X DistGrid \X DistGrid \X DistGrid) \cup ShortSegmentInputs

InitDistance ==
    /\ pc = <<>>
    /\ CallIdle
    /\ BasisIdle
    /\ XfIdle

DoGetClosestPointsBetweenSegments ==
    /\ pc = <<>>
    /\ \E in \in DistInputs :
           /\ args' = in
           /\ ret' = <<GetClosestPointsBetweenSegments(in[1], in[2], in[3], in[4])>>
    /\ pc' = <<"GetClosestPointsBetweenSegments">>
    /\ UNCHANGED <<basisVars, xfVars, clip, mem>>

DoGetClosestPointsBetweenSegmentsSwapped ==
    /\ pc = <<"GetClosestPointsBetweenSegments">>
    /\ ret' = Append(ret, GetClosestPointsBetweenSegments(args[3], args[4], args[1], args[2]))
    /\ pc' = Append(pc, "GetClosestPointsBetweenSegments")
    /\ UNCHANGED <<args, basisVars, xfVars, clip, mem>>

NextDistance ==
    DoGetClosestPointsBetweenSegments \/ DoGetClosestPointsBetweenSegmentsSwapped

SpecDistance == InitDistance /\ [][NextDistance]_vars

(***************************************************************************)
(* TransposeXform scenario: one call b.TransposeXform(m), m being a probe  *)
(* matrix or b itself.                                                     *)
(***************************************************************************)
TransposeRows == {<<x, y, z>> : x, y, z \in BasisCells}

TransposeBases == {<<r0, r1, r2>> : r0, r1, r2 \in TransposeRows}

\* Matrices with nine different cells, so that no two index mix-ups agree.
TransposeProbes ==
    { << <<F(1), F(2), F(3)>>, <<F(4), F(5), F(6)>>, <<F(7), F(8), F(9)>> >>,
      << <<F(-1), F(3), F(0)>>, <<F(2), F(-4), F(5)>>, <<F(7), F(1), F(-6)>> >> }

InitTranspose ==
    /\ pc = <<>>
    /\ CallIdle
    /\ BasisIdle
    /\ XfIdle

DoTransposeXform ==
    /\ pc = <<>>
    /\ \E b \in TransposeBases :
           \E m \in TransposeProbes \cup {b} :
               /\ args' = <<b, m>>
               /\ ret' = BasisTransposeXform(b, m)
    /\ pc' = <<"TransposeXform">>
    /\ UNCHANGED <<basisVars, xfVars, clip, mem>>

NextTranspose == DoTransposeXform

SpecTranspose == InitTranspose /\ [][NextTranspose]_vars

(***************************************************************************)
(* Axis-angle scenario: SetAxisAngle on a basis that holds the identity or *)
(* other cells, followed by Xform of the axis or by Determinant; or one    *)
(* call of NewBasisFromAxisAndAngle or of Vector3.Rotated.  The angles are *)
(* the multiples of a quarter turn, the axes have length one.              *)
(***************************************************************************)
AxisAngleStartBases ==
    {NewBasis, << <<F(1), F(2), F(3)>>, <<F(4), F(5), F(6)>>, <<F(7), F(8), F(9)>> >>}

InitAxisAngle ==
    /\ pc = <<>>
    /\ CallIdle
    /\ XfIdle
    /\ basis \in AxisAngleStartBases
    /\ borig = NewBasis
    /\ berr = "none"
    /\ bdet = F(0)
    /\ bx = ZeroVector3
    /\ by = ZeroVector3

DoSetAxisAngle ==
    /\ pc = <<>>
    /\ \E axis \in UnitVectors, angle \in QuarterAngles :
           /\ args' = <<axis, angle>>
           /\ basis' = BasisSetAxisAngle(basis, axis, angle)
    /\ borig' = basis
    /\ pc' = <<"SetAxisAngle">>
    /\ UNCHANGED <<berr, bdet, bx, by, xfVars, ret, clip, mem>>

DoAxisXform ==
    /\ pc = <<"SetAxisAngle">>
    /\ bx' = args[1]
    /\ by' = BasisXform(basis, args[1])
    /\ pc' = Append(pc, "Xform")
    /\ UNCHANGED <<basis, borig, berr, bdet, xfVars, callVars>>

DoAxisDeterminant ==
    /\ pc = <<"SetAxisAngle">>
    /\ bdet' = BasisDeterminant(basis)
    /\ pc' = Append(pc, "Determinant")
    /\ UNCHANGED <<basis, borig, berr, bx, by, xfVars, callVars>>

DoNewBasisFromAxisAndAngle ==
    /\ pc = <<>>
    /\ \E axis \in UnitVectors, angle \in QuarterAngles :
           /\ args' = <<axis, angle>>
           /\ ret' = NewBasisFromAxisAndAngle(axis, angle)
    /\ pc' = <<"NewBasisFromAxisAndAngle">>
    /\ UNCHANGED <<basisVars, xfVars, clip, mem>>

DoVector3Rotated ==
    /\ pc = <<>>
    /\ \E axis \in UnitVectors, angle \in QuarterAngles :
           \E v \in ProbeVectors \cup {axis} :
               /\ args' = <<v, axis, angle>>
               /\ ret' = Vector3Rotated(v, axis, angle)
    /\ pc' = <<"Vector3.Rotated">>
    /\ UNCHANGED <<basisVars, xfVars, clip, mem>>

NextAxisAngle ==
    \/ DoSetAxisAngle
    \/ DoAxisXform
    \/ DoAxisDeterminant
    \/ DoNewBasisFromAxisAndAngle
    \/ DoVector3Rotated

SpecAxisAngle == InitAxisAngle /\ [][NextAxisAngle]_vars

(***************************************************************************)
(* Transform2D rotation scenario: NewTransform2D(rot, pos), then           *)
(* GetRotation, or SetRotation and GetRotation.                            *)
(***************************************************************************)
InitXfRotation ==
    /\ pc = <<>>
    /\ CallIdle
    /\ BasisIdle
    /\ XfIdle

DoNewTransform2D ==
    /\ pc = <<>>
    /\ \E rot \in QuarterAngles, pos \in Vectors2 :
           /\ args' = <<rot, pos>>
           /\ xf' = NewTransform2D(rot, pos)
    /\ pc' = <<"NewTransform2D">>
    /\ UNCHANGED <<basisVars, xp, xq, ret, clip, mem>>

DoSetRotation ==
    /\ pc = <<"NewTransform2D">>
    /\ \E p_rot \in QuarterAngles :
           /\ args' = Append(args, p_rot)
           /\ xf' = Transform2DSetRotation(xf, p_rot)
    /\ pc' = Append(pc, "SetRotation")
    /\ UNCHANGED <<basisVars, xp, xq, ret, clip, mem>>

DoGetRotation ==
    /\ pc \in {<<"NewTransform2D">>, <<"NewTransform2D", "SetRotation">>}
    /\ ret' = Transform2DGetRotation(xf)
    /\ pc' = Append(pc, "GetRotation")
    /\ UNCHANGED <<basisVars, xfVars, args, clip, mem>>

NextXfRotation == DoNewTransform2D \/ DoSetRotation \/ DoGetRotation

SpecXfRotation == InitXfRotation /\ [][NextXfRotation]_vars

(***************************************************************************)
(* Wrapi scenario: one call on any three integers of the width.            *)
(***************************************************************************)
Ints == MathMinInt..MathMaxInt

InitWrapi ==
    /\ pc = <<>>
    /\ CallIdle
    /\ BasisIdle
    /\ XfIdle

DoWrapi ==
    /\ pc = <<>>
    /\ \E value, min, max \in Ints :
           /\ args' = <<value, min, max>>
           /\ ret' = Wrapi(value, min, max)
    /\ pc' = <<"Wrapi">>
    /\ UNCHANGED <<basisVars, xfVars, clip, mem>>

NextWrapi == DoWrapi

SpecWrapi == InitWrapi /\ [][NextWrapi]_vars

(***************************************************************************)
(* MoveToward scenario: a caller moves a value toward a target with a      *)
(* fixed delta, handing each result to the next call.  args holds the      *)
(* arguments of the latest call, ret its result.                           *)
(***************************************************************************)
Floats ==
    {FMul(F(m), Pow2(e)) : m \in -(2 ^ MantBits - 1)..(2 ^ MantBits - 1),
                           e \in MinExp..MaxExp}

\* The deltas: zero and the powers of two.
MoveDeltas == {F(0)} \cup {Pow2(e) : e \in MinExp..MaxExp}

MoveTowardInputs == Floats \X Floats \X MoveDeltas

\* MoveToward on every input of the scenario.  The empty function joined
\* to it makes TLC evaluate the table once instead of at each application.
MoveTowardOf ==
    [in \in MoveTowardInputs |-> MoveToward(in[1], in[2], in[3])] @@ <<>>

\* The caller holds the value, the target and the delta.
InitMoveToward ==
    /\ pc = <<>>
    /\ args \in MoveTowardInputs
    /\ ret = <<>>
    /\ clip = NoClipperOffset
    /\ mem = NoSlices
    /\ BasisIdle
    /\ XfIdle

DoMoveToward ==
    /\ pc = <<>>
    /\ ret' = MoveTowardOf[args]
    /\ pc' = <<"MoveToward">>
    /\ UNCHANGED <<basisVars, xfVars, args, clip, mem>>

DoMoveTowardAgain ==
    /\ pc # <<>>
    /\ args' = <<ret, args[2], args[3]>>
    /\ ret' = MoveTowardOf[<<ret, args[2], args[3]>>]
    /\ pc' = <<"MoveToward", "MoveToward">>
    /\ UNCHANGED <<basisVars, xfVars, clip, mem>>

NextMoveToward == DoMoveToward \/ DoMoveTowardAgain

SpecMoveToward == InitMoveToward /\ [][NextMoveToward]_vars

\* The caller makes its first call and keeps calling.
SpecMoveTowardFair ==
    SpecMoveToward /\ WF_vars(DoMoveToward) /\ WF_vars(DoMoveTowardAgain)

(***************************************************************************)
(* Interpolation scenario: one call of Lerp, CubicInterpolate or           *)
(* BezierInterpolate on floats.                                            *)
(***************************************************************************)
\* The largest and the smallest mantissa at two exponents, and zero.
InterpFloats ==
    {FMul(F(m), Pow2(e)) : m \in {-(2 ^ MantBits - 1), -1, 0, 1, 2 ^ MantBits - 1},
                           e \in {MinExp, 0}}

InitInterpolate ==
    /\ pc = <<>>
    /\ CallIdle
    /\ BasisIdle
    /\ XfIdle

DoLerp ==
    /\ pc = <<>>
    /\ \E p_from, p_to \in Floats, p_weight \in Weights :
           /\ args' = <<p_from, p_to, p_weight>>
           /\ ret' = LerpRounded(p_from, p_to, p_weight)
    /\ pc' = <<"Lerp">>
    /\ UNCHANGED <<basisVars, xfVars, clip, mem>>

DoCubicInterpolate ==
    /\ pc = <<>>
    /\ \E p_from, p_to, p_pre, p_post \in InterpFloats, p_weight \in Weights :
           /\ args' = <<p_from, p_to, p_pre, p_post, p_weight>>
           /\ ret' = CubicInterpolate(p_from, p_to, p_pre, p_post, p_weight)
    /\ pc' = <<"CubicInterpolate">>
    /\ UNCHANGED <<basisVars, xfVars, clip, mem>>

DoBezierInterpolate ==
    /\ pc = <<>>
    /\ \E p_start, p_control_1, p_control_2, p_end \in InterpFloats, p_t \in Weights :
           /\ args' = <<p_start, p_control_1, p_control_2, p_end, p_t>>
           /\ ret' = BezierInterpolate(p_start, p_control_1, p_control_2, p_end, p_t)
    /\ pc' = <<"BezierInterpolate">>
    /\ UNCHANGED <<basisVars, xfVars, clip, mem>>

NextInterpolate == DoLerp \/ DoCubicInterpolate \/ DoBezierInterpolate

SpecInterpolate == InitInterpolate /\ [][NextInterpolate]_vars

(***************************************************************************)
(* Elementwise scenario: one call of Abs, Sign, Floor, Ceil, Round or Lerp *)
(* of package utils on slices of positive and negative halves.             *)
(***************************************************************************)
SignedCells == {Rat(n, 2) : n \in -(MaxSliceCell + 1)..(MaxSliceCell + 1)}

SignedSlices == UNION {[1..n -> SignedCells] : n \in 0..MaxSliceLen}

InitElementwise ==
    /\ pc = <<>>
    /\ CallIdle
    /\ BasisIdle
    /\ XfIdle

DoAbs ==
    /\ pc = <<>>
    /\ \E s \in SignedSlices :
           LET out == UtilsAbs(s)
           IN  /\ args' = <<s>>
               /\ ret' = out.res
               /\ mem' = [a |-> out.a, b |-> out.b]
    /\ pc' = <<"Abs">>
    /\ UNCHANGED <<basisVars, xfVars, clip>>

DoSign ==
    /\ pc = <<>>
    /\ \E s \in SignedSlices :
           LET out == UtilsSign(s)
           IN  /\ args' = <<s>>
               /\ ret' = out.res
               /\ mem' = [a |-> out.a, b |-> out.b]
    /\ pc' = <<"Sign">>
    /\ UNCHANGED <<basisVars, xfVars, clip>>

DoFloor ==
    /\ pc = <<>>
    /\ \E s \in SignedSlices :
           LET out == UtilsFloor(s)
           IN  /\ args' = <<s>>
               /\ ret' = out.res
               /\ mem' = [a |-> out.a, b |-> out.b]
    /\ pc' = <<"Floor">>
    /\ UNCHANGED <<basisVars, xfVars, clip>>

DoCeil ==
    /\ pc = <<>>
    /\ \E s \in SignedSlices :
           LET out == UtilsCeil(s)
           IN  /\ args' = <<s>>
               /\ ret' = out.res
               /\ mem' = [a |-> out.a, b |-> out.b]
    /\ pc' = <<"Ceil">>
    /\ UNCHANGED <<basisVars, xfVars, clip>>

DoRound ==
    /\ pc = <<>>
    /\ \E s \in SignedSlices :
           LET out == UtilsRound(s)
           IN  /\ args' = <<s>>
               /\ ret' = out.res
               /\ mem' = [a |-> out.a, b |-> out.b]
    /\ pc' = <<"Round">>
    /\ UNCHANGED <<basisVars, xfVars, clip>>

DoSliceLerp ==
    /\ pc = <<>>
    /\ \E a, b \in SignedSlices, weight \in Weights :
           LET out == UtilsLerp(a, b, weight)
           IN  /\ args' = <<a, b, weight>>
               /\ ret' = out.res
               /\ mem' = [a |-> out.a, b |-> out.b]
    /\ pc' = <<"utils.Lerp">>
    /\ UNCHANGED <<basisVars, xfVars, clip>>

NextElementwise == DoAbs \/ DoSign \/ DoFloor \/ DoCeil \/ DoRound \/ DoSliceLerp

SpecElementwise == InitElementwise /\ [][NextElementwise]_vars

\* The last operation applied.
LastOp == IF pc = <<>> THEN "" ELSE pc[Len(pc)]

(***************************************************************************)
(* Claims about Basis.                                                     *)
(***************************************************************************)
\* The determinant by the rule of Sarrus, for stating the claims.
Sarrus(m) ==
    FSub(FAdd(FAdd(FMul(FMul(m[1][1], m[2][2]), m[3][3]),
                   FMul(FMul(m[1][2], m[2][3]), m[3][1])),
              FMul(FMul(m[1][3], m[2][1]), m[3][2])),
         FAdd(FAdd(FMul(FMul(m[1][3], m[2][2]), m[3][1]),
                   FMul(FMul(m[1][1], m[2][3]), m[3][2])),
              FMul(FMul(m[1][2], m[2][1]), m[3][3])))

IdentityRows ==
    << <<F(1), F(0), F(0)>>, <<F(0), F(1), F(0)>>, <<F(0), F(0), F(1)>> >>

\* C1: for a Basis B of non-zero determinant and a vector x, y = B.Xform(x),
\* then B.Invert(), then B.Xform(y) gives back x.
C1_InvertRoundTrip ==
    (LastOp = "XformBack" /\ ~FEq(Sarrus(borig), F(0))) => by = bx

\* C2: Invert returns an error exactly when the determinant is exactly zero,
\* and then leaves the nine cells as they were; otherwise it returns nil.
C2_InvertErrorIffSingular ==
    LastOp = "Invert" =>
        /\ berr \in {"nil", "singular"}
        /\ (berr = "singular") <=> FEq(Sarrus(borig), F(0))
        /\ (berr = "singular") => basis = borig

C2_Witness ==
    /\ LastOp = "Invert"
    /\ berr = "singular"
    /\ borig[1][1] = F(1)
    /\ borig[2][2] = F(1)
    /\ basis = borig

\* C3: the Basis of NewBasis has Determinant() = 1, and Invert on it returns
\* nil and leaves the identity matrix.
C3_IdentityBasis ==
    /\ pc = <<"NewBasis">> => basis = IdentityRows
    /\ pc = <<"NewBasis", "Determinant">> => bdet = F(1)
    /\ pc = <<"NewBasis", "Invert">> => (berr = "nil" /\ basis = IdentityRows)

C3_Witness ==
    /\ pc = <<"NewBasis", "Invert">>
    /\ borig = IdentityRows
    /\ berr = "nil"

(***************************************************************************)
(* Claims about Transform2D.                                               *)
(***************************************************************************)
\* The basis columns are orthonormal with determinant 1.
IsPureRotation(t) ==
    /\ Vector2LengthSquared(t[1]) = F(1)
    /\ Vector2LengthSquared(t[2]) = F(1)
    /\ Vector2Dot(t[1], t[2]) = F(0)
    /\ determinant(t) = F(1)

\* C4: for a Transform2D t of non-zero determinant and a point p,
\* t.ToLocal(t.ToGlobal(p)) = p.
C4_ToLocalInvertsToGlobal ==
    (LastOp = "ToLocal" /\ ~FEq(determinant(xf), F(0))) => xq = xp

\* C5: for a Transform2D t whose basis is a pure rotation and a point p,
\* t.Inverse().Xform(t.Xform(p)) = p.
C5_InverseInvertsRotation ==
    (LastOp = "Inverse.Xform" /\ IsPureRotation(xf)) => xq = xp

(***************************************************************************)
(* Claims about the closest-point queries.                                 *)
(***************************************************************************)
Cross2(u, v) == FSub(FMul(u.X, v.Y), FMul(u.Y, v.X))

IsBetween(x, lo, hi) == (FLe(lo, x) /\ FLe(x, hi)) \/ (FLe(hi, x) /\ FLe(x, lo))

\* q lies on the segment from a to b.
OnSegment(q, a, b) ==
    /\ Cross2(Vector2Sub(b, a), Vector2Sub(q, a)) = F(0)
    /\ IsBetween(q.X, a.X, b.X)
    /\ IsBetween(q.Y, a.Y, b.Y)

\* r is a point of the segment from a to b nearest to point: r is on the
\* segment and neither end of the segment lies on point's side of r.
IsNearestOnSegment(r, point, a, b) ==
    /\ OnSegment(r, a, b)
    /\ FLe(Vector2Dot(Vector2Sub(point, r), Vector2Sub(a, r)), F(0))
    /\ FLe(Vector2Dot(Vector2Sub(point, r), Vector2Sub(b, r)), F(0))

C8_DegenerateSegment ==
    (LastOp \in {"GetClosestPointToSegment", "GetClosestPointToSegmentUncapped"}
        /\ args[2] = args[3]) => ret = args[2]

C8_Witness ==
    /\ LastOp = "GetClosestPointToSegmentUncapped"
    /\ args = <<NewVector2(F(3), F(2)), NewVector2(F(1), F(1)), NewVector2(F(1), F(1))>>
    /\ ret = NewVector2(F(1), F(1))

(***************************************************************************)
(* Claims about the intersection queries.  For a call with end points      *)
(* a1, a2 of A and b1, b2 of B: the lines are parallel when the cross      *)
(* product of the directions is 0, and otherwise meet in MeetingPoint.     *)
(***************************************************************************)
Parallel(a1, a2, b1, b2) == Cross2(Vector2Sub(a2, a1), Vector2Sub(b2, b1)) = F(0)

MeetingPoint(a1, a2, b1, b2) ==
    LET dA == Vector2Sub(a2, a1)
        dB == Vector2Sub(b2, b1)
        t  == FDiv(Cross2(Vector2Sub(b1, a1), dB), Cross2(dA, dB))
    IN  Vector2Add(a1, Vector2Mulf(dA, t))

\* The segments are not parallel and cross in one point of both.
CrossInOnePoint(a1, a2, b1, b2) ==
    /\ ~Parallel(a1, a2, b1, b2)
    /\ OnSegment(MeetingPoint(a1, a2, b1, b2), a1, a2)
    /\ OnSegment(MeetingPoint(a1, a2, b1, b2), b1, b2)

\* The cross product of A's direction with q - a1, over |A|^2: the signed
\* offset of q from the line through A that the code compares with
\* CMP_EPSILON.
Offset(q, a1, a2) ==
    FDiv(Cross2(Vector2Sub(a2, a1), Vector2Sub(q, a1)),
         Vector2LengthSquared(Vector2Sub(a2, a1)))

\* Both ends of B are on the same side of the line through A, each more
\* than CMP_EPSILON off it.
ClearlySameSide(a1, a2, b1, b2) ==
    \/ (FLt(CMP_EPSILON, Offset(b1, a1, a2)) /\ FLt(CMP_EPSILON, Offset(b2, a1, a2)))
    \/ (FLt(Offset(b1, a1, a2), FNeg(CMP_EPSILON))
          /\ FLt(Offset(b2, a1, a2), FNeg(CMP_EPSILON)))

\* Both ends of B are strictly on the same side of the line through A.
SameSide(a1, a2, b1, b2) ==
    \/ (FLt(F(0), Offset(b1, a1, a2)) /\ FLt(F(0), Offset(b2, a1, a2)))
    \/ (FLt(Offset(b1, a1, a2), F(0)) /\ FLt(Offset(b2, a1, a2), F(0)))

\* C9 as claimed: when A and B are not parallel and cross in one point of
\* both, SegmentIntersectsSegment returns that point ((0,0)-(2,2) against
\* (0,2)-(2,0) gives (1,1)); a point it returns other than the zero vector
\* lies on both segments.
C9_Original ==
    LastOp = "SegmentIntersectsSegment" =>
        LET a1 == args[1]
            a2 == args[2]
            b1 == args[3]
            b2 == args[4]
        IN  /\ CrossInOnePoint(a1, a2, b1, b2) => ret = MeetingPoint(a1, a2, b1, b2)
            /\ ret # ZeroVector2 => (OnSegment(ret, a1, a2) /\ OnSegment(ret, b1, b2))

\* C9 as amended: the crossing point is returned when moreover the offsets
\* of B's two ends from the line through A differ by at least CMP_EPSILON;
\* a point returned other than the zero vector lies on A and on the line
\* through B, and on B itself unless B's ends are on the same side of the
\* line through A and not both more than CMP_EPSILON off it.
C9_IntersectionWithinTolerance ==
    LastOp = "SegmentIntersectsSegment" =>
        LET a1 == args[1]
            a2 == args[2]
            b1 == args[3]
            b2 == args[4]
        IN  /\ (CrossInOnePoint(a1, a2, b1, b2)
                  /\ ~IsEqualApprox(Offset(b1, a1, a2), Offset(b2, a1, a2)))
               => ret = MeetingPoint(a1, a2, b1, b2)
            /\ ret # ZeroVector2 =>
                  /\ OnSegment(ret, a1, a2)
                  /\ Cross2(Vector2Sub(b2, b1), Vector2Sub(ret, b1)) = F(0)
                  /\ \/ OnSegment(ret, b1, b2)
                     \/ (SameSide(a1, a2, b1, b2) /\ ~ClearlySameSide(a1, a2, b1, b2))
            /\ args = <<NewVector2(F(0), F(0)), NewVector2(F(2), F(2)),
                        NewVector2(F(0), F(2)), NewVector2(F(2), F(0))>>
               => ret = NewVector2(F(1), F(1))

C9_Witness ==
    /\ LastOp = "SegmentIntersectsSegment"
    /\ args = <<NewVector2(F(0), F(0)), NewVector2(F(2), F(2)),
                NewVector2(F(0), F(2)), NewVector2(F(2), F(0))>>
    /\ ret = NewVector2(F(1), F(1))

\* C10 as claimed: LineIntersectsLine returns the zero vector when the two
\* directions are parallel; SegmentIntersectsSegment returns the zero vector
\* when A has zero length, when the segments are parallel or colinear, and
\* when B does not cross A within A's extent.
C10_Original ==
    /\ LastOp = "LineIntersectsLine" =>
          (Cross2(args[2], args[4]) = F(0) => ret = ZeroVector2)
    /\ LastOp = "SegmentIntersectsSegment" =>
          LET a1 == args[1]
              a2 == args[2]
              b1 == args[3]
              b2 == args[4]
          IN  (a1 = a2 \/ Parallel(a1, a2, b1, b2) \/ ~CrossInOnePoint(a1, a2, b1, b2))
                  => ret = ZeroVector2

\* C10 as amended: the last case is that B's ends are on the same side of
\* the line through A, each more than CMP_EPSILON off it, or that the line
\* through B meets the line through A outside A.
C10_ZeroSentinel ==
    /\ LastOp = "LineIntersectsLine" =>
          (Cross2(args[2], args[4]) = F(0) => ret = ZeroVector2)
    /\ LastOp = "SegmentIntersectsSegment" =>
          LET a1 == args[1]
              a2 == args[2]
              b1 == args[3]
              b2 == args[4]
          IN  (\/ a1 = a2
               \/ Parallel(a1, a2, b1, b2)
               \/ ClearlySameSide(a1, a2, b1, b2)
               \/ ~OnSegment(MeetingPoint(a1, a2, b1, b2), a1, a2))
                  => ret = ZeroVector2

C10_Witness ==
    /\ LastOp = "SegmentIntersectsSegment"
    /\ args = <<NewVector2(F(1), F(1)), NewVector2(F(1), F(1)),
                NewVector2(F(0), F(0)), NewVector2(F(2), F(2))>>
    /\ ret = ZeroVector2

(***************************************************************************)
(* Claims about polygon offsetting.                                        *)
(***************************************************************************)
\* The corners of the smallest axis-parallel box around a list of points:
\* <<min x, min y, max x, max y>>.
BoundingBox(points) ==
    LET lowX == CHOOSE i \in 1..Len(points) :
                    \A k \in 1..Len(points) : FLe(points[i].X, points[k].X)
        lowY == CHOOSE i \in 1..Len(points) :
                    \A k \in 1..Len(points) : FLe(points[i].Y, points[k].Y)
        highX == CHOOSE i \in 1..Len(points) :
                     \A k \in 1..Len(points) : FLe(points[k].X, points[i].X)
        highY == CHOOSE i \in 1..Len(points) :
                     \A k \in 1..Len(points) : FLe(points[k].Y, points[i].Y)
    IN  <<points[lowX].X, points[lowY].Y, points[highX].X, points[highY].Y>>

\* C6: OffsetPolygon returns exactly one polygon per solution path of the
\* clipping library, each with exactly as many vertices as that solution,
\* each vertex being the library's integer vertex divided by 10^8; and for
\* the square of side 10 centred at the origin, delta 1 and square joins,
\* when the library answers with the outline grown by 1, it returns one
\* polygon whose bounding box is the input's grown by 1 on each side.
C6_OffsetPolygonMirrorsSolutions ==
    LastOp = "OffsetPolygon" =>
        /\ Len(ret) = Len(clip.solutions)
        /\ \A i \in 1..Len(ret) :
               /\ Len(ret[i]) = Len(clip.solutions[i])
               /\ \A j \in 1..Len(ret[i]) :
                      ret[i][j] = NewVector2(Rat(clip.solutions[i][j].X, FixedScale),
                                             Rat(clip.solutions[i][j].Y, FixedScale))
        /\ ( /\ args = <<Square(5), F(1), JoinTypeSquare>>
             /\ Len(clip.solutions) = 1 )
               => /\ Len(ret) = 1
                  /\ BoundingBox(ret[1]) = <<F(-6), F(-6), F(6), F(6)>>

\* The call of the example of C6: the square of side 10, delta 1, square
\* joins, the library answers with one path of four vertices; the value
\* returned has two polygons, the first empty, the second with four zero
\* vectors in front of the four vertices.
C6_DoubledResult ==
    /\ LastOp = "OffsetPolygon"
    /\ args = <<Square(5), F(1), JoinTypeSquare>>
    /\ Len(clip.solutions) = 1
    /\ Len(ret) = 2
    /\ ret[1] = <<>>
    /\ Len(ret[2]) = 8
    /\ \A j \in 1..4 : ret[2][j] = ZeroVector2
    /\ BoundingBox(SubSeq(ret[2], 5, 8)) = <<F(-6), F(-6), F(6), F(6)>>

(***************************************************************************)
(* Claims about the polygon winding test.                                  *)
(***************************************************************************)
\* The sum over the edges (p, q) of a closed polygon of (q.x - p.x)(q.y + p.y),
\* edge by edge from the set of edges left to add.
RECURSIVE EdgeSum(_, _)
EdgeSum(polygon, edges) ==
    IF edges = {} THEN F(0)
    ELSE LET i == CHOOSE e \in edges : TRUE
             p == polygon[i]
             q == polygon[IF i = Len(polygon) THEN 1 ELSE i + 1]
         IN  FAdd(FMul(FSub(q.X, p.X), FAdd(q.Y, p.Y)),
                  EdgeSum(polygon, edges \ {i}))

CyclicSum(polygon) == EdgeSum(polygon, 1..Len(polygon))

UnitSquareClockwise ==
    <<NewVector2(F(0), F(0)), NewVector2(F(0), F(1)),
      NewVector2(F(1), F(1)), NewVector2(F(1), F(0))>>

\* C11: IsPolygonClockwise is false for fewer than 3 vertices and otherwise
\* true exactly when the cyclic sum of (x2-x1)*(y2+y1) is strictly positive;
\* it is true for [(0,0),(0,1),(1,1),(1,0)], and a polygon with a non-zero
\* sum gets the opposite answer in reverse vertex order.
C11_PolygonClockwise ==
    LastOp = "IsPolygonClockwise" =>
        LET polygon == args[1]
        IN  /\ Len(polygon) < 3 => ret[1] = FALSE
            /\ Len(polygon) >= 3 => (ret[1] <=> FLt(F(0), CyclicSum(polygon)))
            /\ polygon = UnitSquareClockwise => ret[1] = TRUE
            /\ ( /\ Len(ret) = 2
                 /\ Len(polygon) >= 3
                 /\ CyclicSum(polygon) # F(0) ) => ret[2] = ~ret[1]

\* The unit square of the example and its reverse have both been tested.
C11_Witness ==
    /\ LastOp = "IsPolygonClockwise"
    /\ args = <<UnitSquareClockwise>>
    /\ ret = <<TRUE, FALSE>>

(***************************************************************************)
(* Claims about the slice helpers.                                         *)
(***************************************************************************)
\* C12: no function modifies a value, array or slice passed to it by the
\* caller: after a call of a helper of package utils the caller's slices
\* hold what they held when they were passed.
C12_ArgumentsUnchanged ==
    LastOp \in {"DotN", "Round", "Lerp"} =>
        /\ mem.a = args[1]
        /\ mem.b = args[2]

\* Lerp([0], [1], 0) has returned: the caller's a now holds [1].
C12_LerpOverwritesA ==
    /\ LastOp = "Lerp"
    /\ args = << <<F(0)>>, <<F(1)>>, F(0) >>
    /\ mem.a = <<F(1)>>
    /\ ret = <<F(1)>>

(***************************************************************************)
(* Claims about vector division.                                           *)
(***************************************************************************)
\* The infinity of the sign of the numerator n, for n # 0.
SignedInfinity(n) == IF FLt(n, F(0)) THEN NegInf ELSE PosInf

\* A component n of the dividend over a zero divisor gave the quotient q:
\* q is +Inf for n > 0 and -Inf for n < 0.
ZeroDivisionSigned(n, q) == ~FEq(n, F(0)) => q = SignedInfinity(n)

\* C13: Divf by a zero scalar and Div by a vector with a zero component
\* never fail and give, in each affected component, the infinity with the
\* sign floating-point division gives: +Inf for a positive numerator, -Inf
\* for a negative one.
C13_DivisionByZeroSigned ==
    /\ LastOp \in {"Vector2.Divf", "Vector3.Divf"} /\ FEq(args[2], F(0))
           => /\ ZeroDivisionSigned(args[1].X, ret.X)
              /\ ZeroDivisionSigned(args[1].Y, ret.Y)
              /\ LastOp = "Vector3.Divf" => ZeroDivisionSigned(args[1].Z, ret.Z)
    /\ LastOp \in {"Vector2.Div", "Vector3.Div"}
           => /\ FEq(args[2].X, F(0)) => ZeroDivisionSigned(args[1].X, ret.X)
              /\ FEq(args[2].Y, F(0)) => ZeroDivisionSigned(args[1].Y, ret.Y)
              /\ (LastOp = "Vector3.Div" /\ FEq(args[2].Z, F(0)))
                     => ZeroDivisionSigned(args[1].Z, ret.Z)

\* Vector2(-1, 1).Divf(0) has returned (+Inf, +Inf).
C13_NegativeOverZero ==
    /\ LastOp = "Vector2.Divf"
    /\ args = <<NewVector2(F(-1), F(1)), F(0)>>
    /\ ret = NewVector2(PosInf, PosInf)

(***************************************************************************)
(* Claims about Slide and Reflect.                                         *)
(***************************************************************************)
\* The squared length x of a normal is within CMP_EPSILON of 1.
SquaredLengthNearOne(x) ==
    /\ FLt(FSub(F(1), CMP_EPSILON), x)
    /\ FLt(x, FAdd(F(1), CMP_EPSILON))

\* The normal handed to the last Slide / Reflect is normalized.
NormalIsNormalized ==
    IF LastOp \in {"Vector2.Slide", "Vector2.Reflect"}
    THEN SquaredLengthNearOne(FAdd(FMul(args[2].X, args[2].X),
                                   FMul(args[2].Y, args[2].Y)))
    ELSE SquaredLengthNearOne(FAdd(FAdd(FMul(args[2].X, args[2].X),
                                        FMul(args[2].Y, args[2].Y)),
                                   FMul(args[2].Z, args[2].Z)))

\* C14: Reflect and Slide, on Vector2 and on Vector3, panic whenever the
\* normal is not normalized (squared length not within CMP_EPSILON of 1)
\* and return a value only for a normalized normal.
C14_PanicUnlessNormalized ==
    LastOp \in {"Vector2.Slide", "Vector2.Reflect", "Vector3.Slide", "Vector3.Reflect"}
        => (ret.panic <=> ~NormalIsNormalized)

\* Vector3(1,0,0).Slide(Vector3(1,1,0)) has returned (1,0,0), its receiver.
C14_Vector3ReturnsReceiver ==
    /\ LastOp = "Vector3.Slide"
    /\ args = <<NewVector3(F(1), F(0), F(0)), NewVector3(F(1), F(1), F(0))>>
    /\ ret = Returns(NewVector3(F(1), F(0), F(0)))

(***************************************************************************)
(* Claims about normalization.                                             *)
(***************************************************************************)
\* The components of a Vector2 or a Vector3, as a tuple.
ComponentsOf(v) ==
    IF "Z" \in DOMAIN v THEN <<v.X, v.Y, v.Z>> ELSE <<v.X, v.Y>>

RECURSIVE SumOfProducts(_, _, _)
SumOfProducts(a, b, n) ==
    IF n = 0 THEN F(0) ELSE FAdd(SumOfProducts(a, b, n - 1), FMul(a[n], b[n]))

\* u is v scaled by 1/|v|: of length 1, parallel to v, and pointing the
\* same way.
IsUnitOf(u, v) ==
    LET a == ComponentsOf(u)
        b == ComponentsOf(v)
        n == Len(a)
    IN  /\ SumOfProducts(a, a, n) = F(1)
        /\ \A i, j \in 1..n : FMul(a[i], b[j]) = FMul(a[j], b[i])
        /\ FLt(F(0), SumOfProducts(a, b, n))

IsZeroVector(v) == \A i \in 1..Len(ComponentsOf(v)) : ComponentsOf(v)[i] = F(0)

\* C15: Normalized() of the zero vector is the zero vector; of a non-zero
\* Vector2 or Vector3 v it is v scaled by 1/|v| (same direction, length 1),
\* and IsNormalized() holds on it.
C15_NormalizedIsUnit ==
    LastOp \in {"Vector2.Normalized", "Vector2.IsNormalized",
                "Vector3.Normalized", "Vector3.IsNormalized"} =>
        /\ IsZeroVector(args[1]) => ret[1] = args[1]
        /\ ~IsZeroVector(args[1]) =>
               /\ IsUnitOf(ret[1], args[1])
               /\ Len(ret) = 2 => ret[2] = TRUE

\* (2,-4,4), of length 6, has been normalized to (1/3,-2/3,2/3) and tested.
C15_Witness ==
    /\ LastOp = "Vector3.IsNormalized"
    /\ args = <<NewVector3(F(2), F(-4), F(4))>>
    /\ ret = <<NewVector3(Rat(1, 3), Rat(-2, 3), Rat(2, 3)), TRUE>>

(***************************************************************************)
(* Claims about angles.                                                    *)
(***************************************************************************)
\* a and b differ by an integer multiple of 2 pi.
CongruentModTau(a, b) ==
    LET d == AngSub(a, b)
    IN  /\ d.one = F(0)
        /\ d.pi[2] = 1
        /\ d.pi[1] % 2 = 0

\* C16: for all angles a and b, LerpAngle(a, b, 0) is a exactly, and
\* LerpAngle(a, b, 1) differs from b by an integer multiple of TAU.
C16_LerpAngleEnds ==
    LastOp = "LerpAngle" =>
        /\ args[3] = F(0) => ret = args[1]
        /\ args[3] = F(1) => CongruentModTau(ret, args[2])

\* LerpAngle(0, 3 pi / 2, 1) has returned - pi / 2, a full turn below b.
C16_Witness ==
    /\ LastOp = "LerpAngle"
    /\ args = <<Ang(F(0), F(0)), Ang(Rat(3, 2), F(0)), F(1)>>
    /\ ret = Ang(Rat(-1, 2), F(0))

\* from plus delta clamped to [|diff| - PI, |diff|], for a shortest
\* difference of absolute value absdiff.
RotateTowardExpected(from, delta, absdiff) ==
    LET low == AngSub(absdiff, PI)
    IN  AngAdd(from, IF AngLt(delta, low) THEN low
                     ELSE IF AngLt(absdiff, delta) THEN absdiff
                     ELSE delta)

\* C19: RotateToward(from, to, delta) returns the constant -1.0 of its early
\* return only when delta is negative; for every delta >= 0 it returns from
\* plus delta clamped to [|diff| - PI, |diff|], diff = AngleDifference(from, to).
C19_RotateTowardClamped ==
    LastOp = "RotateToward" =>
        LET from == args[1]
            delta == args[3]
            expected == RotateTowardExpected(from, delta,
                            AngAbs(AngleDifference(from, args[2])))
        IN  /\ (ret = Ang(F(0), F(-1)) /\ expected # ret) => AngSign(delta) < 0
            /\ AngSign(delta) >= 0 => ret = expected

\* RotateToward(1, 0, 1/2) has returned -1.
C19_MinusOneForPositiveDelta ==
    /\ LastOp = "RotateToward"
    /\ args = <<Ang(F(0), F(1)), Ang(F(0), F(0)), Ang(F(0), Rat(1, 2))>>
    /\ ret = Ang(F(0), F(-1))

(***************************************************************************)
(* Claims about Quaternion.                                                *)
(***************************************************************************)
\* C17: Rotated(axis, angle) returns the identity quaternion (0,0,0,1),
\* and no error, whenever the axis is not normalized, for every angle.
C17_IdentityForUnnormalizedAxis ==
    (LastOp = "Rotated" /\ ~SquaredLengthNearOne(SumOfProducts(ComponentsOf(args[1]),
                                                               ComponentsOf(args[1]), 3)))
        => ret = NewQuaternion(F(0), F(0), F(0), F(1))

\* Rotated((1,1,0), 1/2) has returned the identity.
C17_Witness ==
    /\ LastOp = "Rotated"
    /\ args = <<NewVector3(F(1), F(1), F(0)), Rat(1, 2)>>
    /\ ret = NewQuaternion(F(0), F(0), F(0), F(1))

\* The vector v rotated by the unit quaternion q:
\* v + 2 w (u x v) + 2 u x (u x v), for u the vector part of q.
QuaternionXform(q, v) ==
    LET u == NewVector3(q.X, q.Y, q.Z)
        uv == Vector3Cross(u, v)
        uuv == Vector3Cross(u, uv)
    IN  NewVector3(FAdd(v.X, FMul(F(2), FAdd(FMul(q.W, uv.X), uuv.X))),
                   FAdd(v.Y, FMul(F(2), FAdd(FMul(q.W, uv.Y), uuv.Y))),
                   FAdd(v.Z, FMul(F(2), FAdd(FMul(q.W, uv.Z), uuv.Z))))

QuaternionLengthSquared(q) ==
    FAdd(FAdd(FMul(q.X, q.X), FMul(q.Y, q.Y)), FAdd(FMul(q.Z, q.Z), FMul(q.W, q.W)))

\* C18: for unit vectors v0 and v1, Between(v0, v1) is a unit quaternion
\* whose rotation maps v0 onto v1: the identity when v0 = v1, (cross/s, s/2)
\* with s = sqrt(2(1+dot)) in general, and a rotation by 180 degrees that
\* carries v0 to v1 when dot < -1 + CMP_EPSILON.
C18_BetweenMapsV0OntoV1 ==
    LastOp = "Between" =>
        LET v0 == args[1]
            v1 == args[2]
            dot == SumOfProducts(ComponentsOf(v0), ComponentsOf(v1), 3)
            cross == Vector3Cross(v0, v1)
            twice == FMul(F(2), FAdd(F(1), dot))
        IN  /\ QuaternionLengthSquared(ret) = F(1)
            /\ QuaternionXform(ret, v0) = v1
            /\ v0 = v1 => ret = NewQuaternion(F(0), F(0), F(0), F(1))
            /\ ~FLt(dot, FAdd(F(-1), CMP_EPSILON)) =>
                   \* ret = (cross / s, s / 2) for the s >= 0 with s * s = twice
                   /\ FLe(F(0), ret.W)
                   /\ FMul(FMul(ret.W, ret.W), F(4)) = twice
                   /\ FMul(ret.X, FMul(ret.W, F(2))) = cross.X
                   /\ FMul(ret.Y, FMul(ret.W, F(2))) = cross.Y
                   /\ FMul(ret.Z, FMul(ret.W, F(2))) = cross.Z
            /\ FLt(dot, FAdd(F(-1), CMP_EPSILON)) => ret.W = F(0)

\* Between((0,1,0), (0,-1,0)) has returned (0,1,0,0), the half turn about
\* the axis of v0 itself, which leaves v0 where it is.
C18_HalfTurnAboutV0 ==
    /\ LastOp = "Between"
    /\ args = <<NewVector3(F(0), F(1), F(0)), NewVector3(F(0), F(-1), F(0))>>
    /\ ret = NewQuaternion(F(0), F(1), F(0), F(0))
    /\ QuaternionXform(ret, args[1]) = args[1]

(***************************************************************************)
(* Claims about Vector2.Rotated.                                           *)
(***************************************************************************)
\* C20: Vector2.Rotated(t) returns (x cos t - y sin t, x sin t + y cos t),
\* computed from the original x and y; it preserves the length and rotates
\* (1,0) by a quarter turn to (0,1).
C20_RotatedFromOriginal ==
    LastOp = "Vector2.Rotated" =>
        LET x == args[1].X
            y == args[1].Y
            s == MathSin(args[2])
            c == MathCos(args[2])
        IN  /\ ret.X = FSub(FMul(x, c), FMul(y, s))
            /\ ret.Y = FAdd(FMul(x, s), FMul(y, c))
            /\ FAdd(FMul(ret.X, ret.X), FMul(ret.Y, ret.Y))
                   = FAdd(FMul(x, x), FMul(y, y))
            /\ args = <<NewVector2(F(1), F(0)), Ang(Rat(1, 2), F(0))>>
                   => ret = NewVector2(F(0), F(1))

\* (1,0).Rotated(pi/2) has returned (0,0).
C20_QuarterTurnCollapses ==
    /\ LastOp = "Vector2.Rotated"
    /\ args = <<NewVector2(F(1), F(0)), Ang(Rat(1, 2), F(0))>>
    /\ ret = NewVector2(F(0), F(0))

(***************************************************************************)
(* Claims about the scalar helpers.                                        *)
(***************************************************************************)
\* x is offset plus a whole multiple of step, and no other such number is
\* nearer to target.
IsNearestMultiple(x, offset, step, target) ==
    /\ FDiv(FSub(x, offset), step)[2] = 1
    /\ FLe(FMul(F(2), FAbs(FSub(target, x))), FAbs(step))

\* C21: SnapScalar(offset, step, target) with a non-zero step returns offset
\* plus the multiple of step nearest to target - offset, and with step = 0
\* returns target unchanged.
C21_SnapScalarSnaps ==
    LastOp = "SnapScalar" =>
        /\ args[2] # F(0) => IsNearestMultiple(ret, args[1], args[2], args[3])
        /\ args[2] = F(0) => ret = args[3]

\* SnapScalar(0, 1, 1/2) has returned 1/2, and SnapScalar(1, 0, 1/2) is 1.
C21_NotSnapped ==
    /\ LastOp = "SnapScalar"
    /\ \/ args = <<F(0), F(1), Rat(1, 2)>> /\ ret = Rat(1, 2)
       \/ args = <<F(1), F(0), Rat(1, 2)>> /\ ret = F(1)

(***************************************************************************)
(* Claims about the distance between two segments.                         *)
(***************************************************************************)
\* The squared distance from the point p to the segment from a to b.
SquaredDistanceToSegment(p, a, b) ==
    LET ab == Vector2Sub(b, a)
        ap == Vector2Sub(p, a)
        along == Vector2Dot(ap, ab)
        len2 == Vector2Dot(ab, ab)
    IN  IF a = b \/ FLe(along, F(0)) THEN Vector2Dot(ap, ap)
        ELSE IF FLe(len2, along)
        THEN Vector2Dot(Vector2Sub(p, b), Vector2Sub(p, b))
        ELSE FDiv(FMul(Cross2(ab, ap), Cross2(ab, ap)), len2)

FMin(x, y) == IF FLt(y, x) THEN y ELSE x

\* The ends of each segment lie strictly on opposite sides of the other.
CrossProperly(p1, q1, p2, q2) ==
    /\ FLt(FMul(Cross2(Vector2Sub(q1, p1), Vector2Sub(p2, p1)),
                Cross2(Vector2Sub(q1, p1), Vector2Sub(q2, p1))), F(0))
    /\ FLt(FMul(Cross2(Vector2Sub(q2, p2), Vector2Sub(p1, p2)),
                Cross2(Vector2Sub(q2, p2), Vector2Sub(q1, p2))), F(0))

\* The square of the least distance between a point of p1-q1 and a point
\* of p2-q2: 0 when the segments meet, else the least of the four squared
\* distances from an end of one to the other.
SquaredSegmentDistance(p1, q1, p2, q2) ==
    IF CrossProperly(p1, q1, p2, q2) THEN F(0)
    ELSE FMin(FMin(SquaredDistanceToSegment(p1, p2, q2),
                   SquaredDistanceToSegment(q1, p2, q2)),
              FMin(SquaredDistanceToSegment(p2, p1, q1),
                   SquaredDistanceToSegment(q2, p1, q1)))

\* C22 as claimed: GetClosestPointsBetweenSegments returns the least
\* distance between a point of p1-q1 and a point of p2-q2 for all inputs,
\* and the same with the two segments swapped.
C22_Original ==
    LastOp = "GetClosestPointsBetweenSegments" =>
        /\ ret[1] = RootOf(SquaredSegmentDistance(args[1], args[2], args[3], args[4]))
        /\ Len(ret) = 2 => ret[2] = ret[1]

\* The segment the function works with: a segment of squared length at
\* most CMP_EPSILON counts as its first end alone.
EffectiveEnd(p, q) ==
    IF FLe(Vector2Dot(Vector2Sub(q, p), Vector2Sub(q, p)), CMP_EPSILON) THEN p ELSE q

\* C22: GetClosestPointsBetweenSegments(p1,q1,p2,q2) returns the least
\* distance between a point of p1-q1 and a point of p2-q2, where a segment
\* of squared length at most CMP_EPSILON counts as its first end point
\* alone: 0 when the segments meet, otherwise the least of the four
\* distances from an end of one to the other; and the same value with the
\* two segments swapped.
C22_SegmentDistance ==
    LastOp = "GetClosestPointsBetweenSegments" =>
        /\ ret[1] = RootOf(SquaredSegmentDistance(args[1], EffectiveEnd(args[1], args[2]),
                                                  args[3], EffectiveEnd(args[3], args[4])))
        /\ Len(ret) = 2 => ret[2] = ret[1]

\* (0,0)-(2,0) and (1,1)-(2,1), parallel, have been measured both ways: 1.
C22_Witness ==
    /\ LastOp = "GetClosestPointsBetweenSegments"
    /\ args = <<NewVector2(F(0), F(0)), NewVector2(F(2), F(0)),
                NewVector2(F(1), F(1)), NewVector2(F(2), F(1))>>
    /\ ret = <<RootOf(F(1)), RootOf(F(1))>>

(***************************************************************************)
(* Claims about AngleDifference.                                           *)
(***************************************************************************)
\* C23 as claimed: AngleDifference(from, to) lies in (-pi, pi] and is
\* congruent to to - from modulo TAU; when to - from is pi modulo TAU the
\* result is +pi, never -pi.
C23_Original ==
    LastOp = "AngleDifference" =>
        /\ AngLt(AngNeg(PI), ret)
        /\ AngLe(ret, PI)
        /\ CongruentModTau(ret, AngSub(args[2], args[1]))

\* C23: AngleDifference(from, to) lies in the closed interval [-pi, pi] and
\* is congruent to to - from modulo TAU; when to - from is pi modulo TAU
\* the result is -pi for to > from and +pi for to < from.
C23_ClosedInterval ==
    LastOp = "AngleDifference" =>
        LET d == AngSub(args[2], args[1])
        IN  /\ AngLe(AngNeg(PI), ret)
            /\ AngLe(ret, PI)
            /\ CongruentModTau(ret, d)
            /\ CongruentModTau(d, PI) =>
                   ret = IF AngSign(d) > 0 THEN AngNeg(PI) ELSE PI

\* AngleDifference(0, pi) has returned -pi.
C23_Witness ==
    /\ LastOp = "AngleDifference"
    /\ args = <<Ang(F(0), F(0)), Ang(F(1), F(0))>>
    /\ ret = Ang(F(-1), F(0))

(***************************************************************************)
(* Claims about Basis.TransposeXform.                                      *)
(***************************************************************************)
\* The rows of a basis have length one and are orthogonal to each other.
IsOrthonormalRows(rows) ==
    \A i, j \in 0..2 :
        Vector3Dot(rowToVector3(rows, i), rowToVector3(rows, j))
            = IF i = j THEN F(1) ELSE F(0)

\* C24: b.TransposeXform(m) is transpose(b) * m, cell [i][j] being the sum
\* over k of b[k][i] * m[k][j]; for an orthonormal b, b.TransposeXform(b)
\* is the identity.
C24_TransposeProduct ==
    LastOp = "TransposeXform" =>
        LET b == args[1]
            m == args[2]
        IN  /\ \A i, j \in 1..3 :
                   ret[i][j] = FAdd(FAdd(FMul(b[1][i], m[1][j]),
                                         FMul(b[2][i], m[2][j])),
                                    FMul(b[3][i], m[3][j]))
            /\ (m = b /\ IsOrthonormalRows(b)) => ret = NewBasis

\* A cyclic permutation matrix, which is orthonormal and not symmetric, has
\* been multiplied with its own transpose and has given the identity.
C24_Witness ==
    /\ LastOp = "TransposeXform"
    /\ args[1] = << <<F(0), F(1), F(0)>>, <<F(0), F(0), F(1)>>, <<F(1), F(0), F(0)>> >>
    /\ args[2] = args[1]
    /\ IsOrthonormalRows(args[1])
    /\ ret = NewBasis

(***************************************************************************)
(* Claims about SetAxisAngle, NewBasisFromAxisAndAngle and Vector3.Rotated.*)
(***************************************************************************)
\* Rodrigues' matrix cos * I + sin * [a]x + (1 - cos) * a * aT.
RodriguesMatrix(a, angle) ==
    LET c == MathCos(angle)
        s == MathSin(angle)
        comp == <<a.X, a.Y, a.Z>>
        crossMatrix == << <<F(0), FNeg(a.Z), a.Y>>,
                          <<a.Z, F(0), FNeg(a.X)>>,
                          <<FNeg(a.Y), a.X, F(0)>> >>
        cell(i, j) == FAdd(FAdd(FMul(c, NewBasis[i][j]), FMul(s, crossMatrix[i][j])),
                           FMul(FSub(F(1), c), FMul(comp[i], comp[j])))
    IN  << <<cell(1, 1), cell(1, 2), cell(1, 3)>>,
           <<cell(2, 1), cell(2, 2), cell(2, 3)>>,
           <<cell(3, 1), cell(3, 2), cell(3, 3)>> >>

ZAxis == NewVector3(F(0), F(0), F(1))

QuarterTurn == Ang(Rat(1, 2), F(0))

\* C25: for a unit axis a and an angle, SetAxisAngle and
\* NewBasisFromAxisAndAngle produce Rodrigues' matrix whatever the basis
\* held before: angle 0 gives the identity, Xform(a) is a, the determinant
\* is 1, and Vector3.Rotated about Z by a quarter turn maps (1,0,0) to
\* (0,1,0).
C25_Rodrigues ==
    /\ (pc # <<>> /\ pc[1] = "SetAxisAngle") =>
           /\ basis = RodriguesMatrix(args[1], args[2])
           /\ args[2] = Ang(F(0), F(0)) => basis = NewBasis
           /\ LastOp = "Xform" => by = args[1]
           /\ LastOp = "Determinant" => bdet = F(1)
    /\ LastOp = "NewBasisFromAxisAndAngle" =>
           /\ ret = RodriguesMatrix(args[1], args[2])
           /\ args[2] = Ang(F(0), F(0)) => ret = NewBasis
           /\ BasisXform(ret, args[1]) = args[1]
           /\ BasisDeterminant(ret) = F(1)
    /\ LastOp = "Vector3.Rotated" =>
           /\ ret = BasisXform(RodriguesMatrix(args[2], args[3]), args[1])
           /\ (args = <<NewVector3(F(1), F(0), F(0)), ZAxis, QuarterTurn>>)
                  => ret = NewVector3(F(0), F(1), F(0))

\* SetAxisAngle has overwritten a basis of nine other cells with the
\* quarter turn about an axis with three non-zero components, and its
\* determinant was taken.
C25_Witness ==
    /\ pc = <<"SetAxisAngle", "Determinant">>
    /\ borig # NewBasis
    /\ args = <<NewVector3(Rat(1, 3), Rat(2, 3), Rat(2, 3)), QuarterTurn>>
    /\ basis = RodriguesMatrix(args[1], args[2])
    /\ bdet = F(1)

(***************************************************************************)
(* Claims about the rotation of a Transform2D.                             *)
(***************************************************************************)
\* The angle lies in (-pi, pi].
InHalfOpenTurn(rot) == AngLt(AngNeg(PI), rot) /\ AngLe(rot, PI)

\* C26: for every rot in (-pi, pi] and every pos,
\* NewTransform2D(rot, pos).GetRotation() is rot, and NewTransform2D(rot,
\* pos) has the basis columns of NewTransform2D(0, pos) after
\* SetRotation(rot).
C26_RotationRoundTrip ==
    /\ (pc = <<"NewTransform2D", "GetRotation">> /\ InHalfOpenTurn(args[1]))
           => ret = args[1]
    /\ (/\ Len(pc) >= 2
        /\ pc[2] = "SetRotation"
        /\ args[1] = Ang(F(0), F(0))
        /\ InHalfOpenTurn(args[3]))
           => LET n == NewTransform2D(args[3], args[2])
              IN  xf[1] = n[1] /\ xf[2] = n[2]

\* GetRotation of NewTransform2D(pi/2, pos) has returned -pi/2.
C26_Negated ==
    /\ pc = <<"NewTransform2D", "GetRotation">>
    /\ args[1] = Ang(Rat(1, 2), F(0))
    /\ ret = Ang(Rat(-1, 2), F(0))

(***************************************************************************)
(* Claims about Wrapi.                                                     *)
(***************************************************************************)
\* a and b differ by a multiple of m > 0.
CongruentMod(a, b, m) == (a - b) % m = 0

\* C27 as claimed: for all integers value, min < max, Wrapi lies in
\* [min, max) and is congruent to value modulo max - min; for max = min it
\* is min.
C27_Original ==
    LastOp = "Wrapi" =>
        LET value == args[1]
            min == args[2]
            max == args[3]
        IN  /\ min < max => /\ min <= ret
                            /\ ret < max
                            /\ CongruentMod(ret, value, max - min)
            /\ min = max => ret = min

\* C27: for min < max with 2 * (max - min) - 1 representable, so that
\* neither max - min nor the sum of a remainder and max - min overflows,
\* Wrapi lies in [min, max), and if value - min is representable too it is
\* congruent to value modulo max - min, also for value < min; for
\* max = min it is min.
C27_WrapsWithoutOverflow ==
    LastOp = "Wrapi" =>
        LET value == args[1]
            min == args[2]
            max == args[3]
        IN  /\ (min < max /\ 2 * (max - min) - 1 <= MathMaxInt) =>
                   /\ min <= ret
                   /\ ret < max
                   /\ (value - min \in Ints) => CongruentMod(ret, value, max - min)
            /\ min = max => ret = min

\* A value below min has been wrapped into [min, max), none of the
\* subtractions overflowing.
C27_Witness ==
    /\ LastOp = "Wrapi"
    /\ args = <<-3, -1, 2>>
    /\ ret = 0

(***************************************************************************)
(* Claims about MoveToward.                                                *)
(***************************************************************************)
\* The result lies between from and to, and is to when to is at most
\* delta away.
MoveTowardNoOvershoot ==
    LastOp = "MoveToward" =>
        LET from == args[1]
            to == args[2]
            delta == args[3]
        IN  /\ FLe(from, to) => FLe(from, ret) /\ FLe(ret, to)
            /\ FLe(to, from) => FLe(to, ret) /\ FLe(ret, from)
            /\ FLe(FAbs(FSub(to, from)), delta) => ret = to

\* Where to is more than delta away, the result is exactly delta away from
\* from toward to.
MoveTowardExactStep ==
    LastOp = "MoveToward" =>
        LET from == args[1]
            to == args[2]
            delta == args[3]
        IN  FLt(delta, FAbs(FSub(to, from))) =>
                ret = FAdd(from, FMul(Sign(FSub(to, from)), delta))

\* Where to is more than delta away, the result is from + delta or
\* from - delta rounded to the nearest float, or to.
MoveTowardRoundedStep ==
    LastOp = "MoveToward" =>
        LET from == args[1]
            to == args[2]
            delta == args[3]
        IN  FLt(delta, FAbs(FSub(to, from))) =>
                ret \in {to, RoundFloat(FAdd(from, FMul(Sign(FSub(to, from)), delta)))}

\* C28 as claimed: for delta >= 0 MoveToward never overshoots, gives to
\* when to is at most delta away and otherwise a value exactly delta away
\* from from toward to; repeated with a fixed delta > 0 it reaches to and
\* stays there.
C28_Original ==
    /\ [](MoveTowardNoOvershoot /\ MoveTowardExactStep)
    /\ <>[](pc # <<>> => (FLt(F(0), args[3]) => ret = args[2]))

\* C28: for delta >= 0 MoveToward never overshoots, gives to when to is at
\* most delta away and otherwise from +/- delta rounded to the nearest
\* float (or to); repeated with a fixed delta it reaches to or a value
\* that adding delta does not change, and stays there.
C28_NoOvershoot ==
    /\ [](MoveTowardNoOvershoot /\ MoveTowardRoundedStep)
    /\ <>[](pc # <<>> => (ret = args[2] \/ ret = args[1]))
    /\ []((pc # <<>> /\ ret = args[2]) => [](ret = args[2]))

\* A repeated step has moved the value by exactly delta, and the next step
\* reaches the target.
C28_Witness ==
    /\ pc = <<"MoveToward", "MoveToward">>
    /\ args[1] # args[2]
    /\ FLt(F(0), args[3])
    /\ FLt(args[3], FAbs(FSub(args[2], args[1])))
    /\ ret = FAdd(args[1], FMul(Sign(FSub(args[2], args[1])), args[3]))
    /\ MoveTowardOf[<<ret, args[2], args[3]>>] = args[2]

\* The value is stuck below the target: adding delta does not change it.
C28_Stuck ==
    /\ pc = <<"MoveToward", "MoveToward">>
    /\ FLt(F(0), args[3])
    /\ ret = args[1]
    /\ ret # args[2]

(***************************************************************************)
(* Claims about the interpolations at weight 0 and weight 1.               *)
(***************************************************************************)
\* Bezier interpolation gives start at 0 and end at 1.
BezierEndpoints ==
    LastOp = "BezierInterpolate" =>
        /\ args[5] = F(0) => ret = args[1]
        /\ args[5] = F(1) => ret = args[4]

\* C29 as claimed: CubicInterpolate gives from at weight 0 and to at
\* weight 1, BezierInterpolate gives start at 0 and end at 1, Lerp gives a
\* at 0 and b at 1.
C29_Original ==
    /\ LastOp = "Lerp" =>
           /\ args[3] = F(0) => ret = args[1]
           /\ args[3] = F(1) => ret = args[2]
    /\ LastOp = "CubicInterpolate" =>
           /\ args[5] = F(0) => ret = args[1]
           /\ args[5] = F(1) => ret = args[2]
    /\ BezierEndpoints

\* Every sum and product that CubicInterpolate forms at weight 1 is a
\* float, so that no operation rounds.
CubicExact(from, to, pre, post) ==
    LET s1 == FAdd(FNeg(pre), to)
        s2 == FSub(FMul(F(2), pre), FMul(F(5), from))
        s3 == FAdd(s2, FMul(F(4), to))
        s4 == FSub(s3, post)
        s5 == FAdd(FNeg(pre), FMul(F(3), from))
        s6 == FSub(s5, FMul(F(3), to))
        s7 == FAdd(s6, post)
        a1 == FAdd(FMul(from, F(2)), s1)
        a2 == FAdd(a1, s4)
        a3 == FAdd(a2, s7)
    IN  {FMul(from, F(2)), FMul(F(2), pre), FMul(F(5), from), FMul(F(4), to),
         FMul(F(3), from), FMul(F(3), to),
         s1, s2, s3, s4, s5, s6, s7, a1, a2, a3} \subseteq Floats

\* C29: BezierInterpolate gives start at 0 and end at 1; Lerp gives a at 0
\* where b - a does not overflow, and b at 1 where b - a is a float;
\* CubicInterpolate gives from at 0 where no operation overflows, and to
\* at 1 where no operation rounds.
C29_Endpoints ==
    /\ LastOp = "Lerp" =>
           /\ (args[3] = F(0) /\ RSub(args[2], args[1]) \in Floats) => ret = args[1]
           /\ (args[3] = F(1) /\ FSub(args[2], args[1]) \in Floats) => ret = args[2]
    /\ LastOp = "CubicInterpolate" =>
           /\ (args[5] = F(0) /\ ret \in Floats) => ret = args[1]
           /\ (args[5] = F(1) /\ CubicExact(args[1], args[2], args[3], args[4]))
                  => ret = args[2]
    /\ BezierEndpoints

\* CubicInterpolate has been taken at weight 1 between different values
\* with neighbours that are not zero, no operation rounding.
C29_Witness ==
    /\ LastOp = "CubicInterpolate"
    /\ args[5] = F(1)
    /\ CubicExact(args[1], args[2], args[3], args[4])
    /\ args[1] # args[2]
    /\ args[2] # F(0)
    /\ args[3] # F(0)
    /\ args[4] # F(0)
    /\ ret = args[2]

\* Lerp at weight 1 has missed b: the difference b - a was rounded.
C29_LerpRounds ==
    /\ LastOp = "Lerp"
    /\ args[3] = F(1)
    /\ ret \in Floats
    /\ ret # args[2]

(***************************************************************************)
(* Claims about the elementwise helpers of package utils.                  *)
(***************************************************************************)
\* The largest integer not above x, and the smallest not below x.
FloorOf(x) == F(x[1] \div x[2])

CeilOf(x) == F(-((-x[1]) \div x[2]))

\* C30: the helpers compute elementwise what their names say: Abs the
\* absolute value, Sign -1, 0 or 1, Floor, Ceil and Round the roundings,
\* and Lerp(a, b, w) the interpolation from a to b over the first
\* min(len(a), len(b)) elements, a at w = 0 and b at w = 1.
C30_Elementwise ==
    /\ LastOp \in {"Abs", "Sign", "Floor", "Ceil", "Round"} =>
           /\ Len(ret) = Len(args[1])
           /\ \A i \in 1..Len(ret) :
                  ret[i] = CASE LastOp = "Abs" -> FAbs(args[1][i])
                             [] LastOp = "Sign" -> Sign(args[1][i])
                             [] LastOp = "Floor" -> FloorOf(args[1][i])
                             [] LastOp = "Ceil" -> CeilOf(args[1][i])
                             [] LastOp = "Round" -> MathRound(args[1][i])
    /\ LastOp = "utils.Lerp" =>
           \A i \in 1..MinInt(Len(args[1]), Len(args[2])) :
               /\ ret[i] = Lerp(args[1][i], args[2][i], args[3])
               /\ args[3] = F(0) => ret[i] = args[1][i]
               /\ args[3] = F(1) => ret[i] = args[2][i]

\* Abs has returned a negative number, Floor a number above its argument,
\* Sign a number that is not -1, 0 or 1, or Lerp at weight 0 an element of
\* b that differs from a's.
C30_WrongResult ==
    \/ LastOp = "Abs" /\ \E i \in 1..Len(ret) : FLt(ret[i], F(0))
    \/ LastOp = "Floor" /\ \E i \in 1..Len(ret) : FLt(args[1][i], ret[i])
    \/ LastOp = "Sign" /\ \E i \in 1..Len(ret) : ret[i] \notin {F(-1), F(0), F(1)}
    \/ /\ LastOp = "utils.Lerp"
       /\ args[3] = F(0)
       /\ \E i \in 1..MinInt(Len(args[1]), Len(args[2])) :
              ret[i] = args[2][i] /\ ret[i] # args[1][i]

====
